---- MODULE Spec2Model ----
(***************************************************************************)
(* Model of the Toit package manager (toitlang/tpkg).                      *)
(*                                                                         *)
(* Part 1: the dependency solver of pkg/tpkg/solver.go.  A Solver is built *)
(* from the registries (NewSolver), optionally told which versions are     *)
(* preferred (SetPreferred) and then asked to Solve a root set of          *)
(* dependencies.  Solve is an iterative backtracking loop; one iteration   *)
(* of the loop is one step of the model.                                   *)
(*                                                                         *)
(* A version is the tuple <<major, minor>> of its segments, compared       *)
(* segment by segment as go-version does.  A nil *version.Version is Nil.  *)
(* The registries hold at most one description per (url, version), so that *)
(* the pointer comparison of solver.go:293 is a comparison of versions.    *)
(***************************************************************************)
EXTENDS Integers, Sequences, FiniteSets, TLC

\* ---------------------------------------------------------------- bounds
\* Number of package descriptions in the registries.
MaxPkgs == 4
\* Number of dependencies handed to Solve.
MaxRootDeps == 2
\* A nil pointer (no version, no url-major key).
Nil == <<>>

\* Urls that may have packages in the registries, and all urls a dependency
\* may name ("e" never has a package).
PkgUrls == {"b", "c"}
AllUrls == PkgUrls \cup {"e"}

Versions == {<<1, 0>>, <<1, 1>>, <<2, 0>>}

\* ------------------------------------------------------ versions, constraints
\* Version.LessThan: segments are compared from the left.
LessThan(v, w) == v[1] < w[1] \/ (v[1] = w[1] /\ v[2] < w[2])

GreaterThan(v, w) == LessThan(w, v)

\* One constraint of a version.Constraints list.
CheckOne(c, v) ==
  CASE c.op = ">=" -> ~LessThan(v, c.v)
    [] c.op = "<" -> LessThan(v, c.v)
    [] c.op = "=" -> v = c.v

\* Constraints.Check: every constraint of the list holds (the empty list
\* accepts every version).
Check(constraints, v) ==
  \A i \in 1..Len(constraints) : CheckOne(constraints[i], v)

\* NewSolverDep: a dependency is a url and a constraint list.
NewSolverDep(url, constraints) == [url |-> url, constraints |-> constraints]

\* The constraint lists dependencies are drawn from.
CAny == <<>>
CLow == <<[op |-> "<", v |-> <<1, 1>>]>>
CHigh == <<[op |-> ">=", v |-> <<1, 1>>]>>

\* The slots of the registries: one description per (url, version).
Slots == {<<"b", v>> : v \in Versions} \cup {<<"c", v>> : v \in {<<1, 0>>, <<1, 1>>}}

SlotSets == {S \in SUBSET Slots : Cardinality(S) <= MaxPkgs}

\* Desc: Desc.URL, Desc.Version, Desc.Deps, Desc.Environment.SDK.
NewDesc(slot, attr) ==
  [url |-> slot[1], version |-> slot[2], deps |-> attr.deps, minSDK |-> attr.minSDK]

\* The registries that fill at most MaxPkgs slots, a slot of url u with a
\* description whose dependencies and minimal SDK are drawn from attrs[u].
RegistriesOf(attrs) ==
  UNION {{{NewDesc(s, f[s]) : s \in S} :
            f \in {g \in [S -> UNION {attrs[u] : u \in PkgUrls}] :
                     \A s \in S : g[s] \in attrs[s[1]]}} :
           S \in SlotSets}

\* The dependencies of a list, as a set.
Range(list) == {list[i] : i \in 1..Len(list)}

\* The orders in which a map iteration may visit the elements of S.
Orders(S) == {o \in [1..Cardinality(S) -> S] : \A i, j \in DOMAIN o : i # j => o[i] # o[j]}

\* Lists of at most n elements of S.
SeqsUpTo(S, n) == UNION {[1..k -> S] : k \in 0..n}

\* Inputs without SDK requirements: packages of b may depend on c, packages
\* of c on a low or a high version of b or on the missing package e.
DepAttrs ==
  [url \in PkgUrls |->
     IF url = "b"
     THEN [deps : {<<>>, <<NewSolverDep("c", CAny)>>}, minSDK : {Nil}]
     ELSE [deps : {<<>>, <<NewSolverDep("b", CLow)>>, <<NewSolverDep("b", CHigh)>>,
                   <<NewSolverDep("e", CAny)>>},
           minSDK : {Nil}]]

RootDepPool == {NewSolverDep("b", CAny), NewSolverDep("b", CHigh), NewSolverDep("c", CAny)}

PreferredPool == {[URL |-> "b", Version |-> v] : v \in Versions}

DepScenarios ==
  [registries : RegistriesOf(DepAttrs), sdkVersion : {Nil},
   preferred : {<<>>} \cup {<<p>> : p \in PreferredPool},
   minSDK : {Nil}, deps : SeqsUpTo(RootDepPool, MaxRootDeps)]

\* Inputs with SDK requirements: packages of b ask for a minimal SDK, the
\* packages of c want a low version of b.
SdkAttrs ==
  [url \in PkgUrls |->
     IF url = "b"
     THEN [deps : {<<>>}, minSDK : {Nil, <<1, 0>>, <<2, 0>>}]
     ELSE [deps : {<<NewSolverDep("b", CLow)>>}, minSDK : {Nil}]]

SdkScenarios ==
  [registries : {R \in RegistriesOf(SdkAttrs) : \A d \in R : d.url = "c" => d.version = <<1, 0>>},
   sdkVersion : {Nil, <<1, 1>>},
   preferred : {<<>>, <<[URL |-> "b", Version |-> <<1, 0>>]>>},
   minSDK : {Nil, <<1, 1>>, <<2, 0>>},
   deps : {<<NewSolverDep("b", CAny)>>,
           <<NewSolverDep("b", CAny), NewSolverDep("c", CAny)>>,
           <<NewSolverDep("c", CAny), NewSolverDep("b", CAny)>>}]

\* What a run is given: the registries and the SDK version of NewSolver, the
\* list of SetPreferred, the minSDK and deps of Solve.
Scenarios == DepScenarios \cup SdkScenarios

\* ------------------------------------------------------------------ state
VARIABLES
  db,             \* Solver.db: url -> candidates, in the order they are tried
  sdkVersion,     \* Solver.sdkVersion
  printedErrors,  \* Solver.printedErrors
  ui,             \* the warnings handed to UI.ReportWarning, in order
  state,          \* Solver.state (solverState)
  workingIndex,   \* the local workingIndex of Solve
  preferred,      \* the list the caller hands to SetPreferred
  solveMinSDK,    \* the minSDK the caller hands to Solve
  solveDeps,      \* the deps the caller hands to Solve
  result,         \* what Solve returned
  pc,             \* "new", "preferred", "loop", "done"
  prior,          \* what the Solve of an earlier solver on the same inputs returned
  str,            \* the argument of toValidPkgID, a list of runes
  id,             \* what toValidPkgID returned
  lockfile,       \* the LockFile that BuildLockFile builds and optimizePkgIDs renames
  working,        \* that LockFile with its working ids, as it was before optimizePkgIDs
  renaming,       \* old2New of optimizePkgIDs when it returned
  lfpc,           \* "none", "built" (working ids), "optimized"
  specOnDisk,     \* the file m.Paths.SpecFile (package.yaml) of the project
  lockOnDisk,     \* the file m.Paths.LockFile (package.lock) of the project
  localSpecs,     \* the directories next to the project and their package.yaml
  call,           \* the operation of the ProjectPkgManager that is running
  returned,       \* what the last operation of the ProjectPkgManager returned
  ops,            \* the number of operations called so far
  proc,           \* the processes that work on the registry cache, and where they are
  flock,          \* the holder of each .tpgk_sync.lock file
  clones,         \* the registry clones in the cache
  dl,             \* the calls of DownloadGit, and where they are
  disk,           \* the directories below the package install path
  uri,            \* the call of ToURIPath and URL on str, and what they returned
  visiting        \* the call of visitLocalDeps: its stack of visits, alreadyVisited, the callbacks

\* The variables that are not part of a Solver.
project == <<specOnDisk, lockOnDisk, localSpecs, call, returned, ops>>

\* The processes and directories of the host.
host == <<proc, flock, clones, dl, disk, uri, visiting>>

others == <<prior, str, id, lockfile, working, renaming, lfpc, project, host>>

vars ==
  <<db, sdkVersion, printedErrors, ui, state, workingIndex, preferred,
    solveMinSDK, solveDeps, result, pc, others>>

\* ------------------------------------------------------------- NewSolver
\* solverPkg: version, deps, minSDK.
SolverPkg(desc) == [version |-> desc.version, deps |-> desc.deps, minSDK |-> desc.minSDK]

\* sort.Sort(byVersion(pkgs)): ascending by version.
RECURSIVE SortByVersion(_)
SortByVersion(S) ==
  IF S = {} THEN <<>>
  ELSE LET least == CHOOSE x \in S : \A y \in S : ~LessThan(y.version, x.version)
       IN <<least>> \o SortByVersion(S \ {least})

\* The list is left as sort.Sort gave it: lower versions first.
NotReversed(pkgs) == pkgs

\* The reversal loop of NewSolver: higher versions first.
Reverse(pkgs) == [i \in 1..Len(pkgs) |-> pkgs[Len(pkgs) + 1 - i]]

\* NewSolver: the database of the registries' entries, per url, newest first.
NewSolver(registries) ==
  [url \in AllUrls |->
     Reverse(SortByVersion({SolverPkg(desc) : desc \in {d \in registries : d.url = url}}))]

\* The solverState before Solve has set it.
EmptyState ==
  [pkgs |-> <<>>, minSDK |-> Nil, workingQueue |-> <<>>,
   continuations |-> <<>>, undos |-> <<>>]

\* A nil *Solution.
NilSolution == [isNil |-> TRUE, pkgs |-> [url \in AllUrls |-> <<>>], minSDK |-> Nil]

\* No Solve has returned yet.
NoPrior == [solved |-> FALSE, solution |-> NilSolution]

\* toValidPkgID has not returned.
NoId == [returned |-> FALSE, v |-> <<>>]

\* LockFile{}
EmptyLockFile == [Prefixes |-> <<>>, Packages |-> <<>>]

\* No lock file is being built.
NoLockFile ==
  lockfile = EmptyLockFile /\ working = EmptyLockFile /\ renaming = <<>> /\ lfpc = "none"

\* A file that does not exist.
NoFile == [exists |-> FALSE]

\* No operation is running, none has returned.
NoCall == [op |-> "none"]

\* No url is converted.
NoUri == [pc |-> "none", path |-> <<>>, url |-> <<>>]

\* No call of visitLocalDeps.
NoVisit ==
  [pc |-> "none", entryDir |-> <<>>, stack |-> <<>>, alreadyVisited |-> {}, calls |-> <<>>]

\* No process works on the caches of the host.
NoHost ==
  /\ proc = <<>> /\ flock = <<>> /\ clones = <<>> /\ dl = <<>> /\ disk = <<>>
  /\ uri = NoUri /\ visiting = NoVisit

\* No project: no files, no operation of a ProjectPkgManager.
NoProject ==
  /\ specOnDisk = NoFile
  /\ lockOnDisk = NoFile
  /\ localSpecs = <<>>
  /\ call = NoCall
  /\ returned = NoCall
  /\ ops = 0

\* Nothing but a Solver exists.
OthersIdle ==
  prior = NoPrior /\ str = <<>> /\ id = NoId /\ NoLockFile /\ NoProject /\ NoHost

\* No Solver exists.
SolverIdle ==
  /\ db = NewSolver({})
  /\ sdkVersion = Nil
  /\ preferred = <<>>
  /\ solveMinSDK = Nil
  /\ solveDeps = <<>>
  /\ printedErrors = {}
  /\ ui = <<>>
  /\ state = EmptyState
  /\ workingIndex = 0
  /\ result = NilSolution
  /\ pc = "none"

\* The state after NewSolver, with the arguments the caller is going to hand
\* to SetPreferred and Solve, for one of the given scenarios.
InitFrom(scenarios) ==
  /\ \E sc \in scenarios :
       /\ db = NewSolver(sc.registries)
       /\ sdkVersion = sc.sdkVersion
       /\ preferred = sc.preferred
       /\ solveMinSDK = sc.minSDK
       /\ solveDeps = sc.deps
  /\ printedErrors = {}
  /\ ui = <<>>
  /\ state = EmptyState
  /\ workingIndex = 0
  /\ result = NilSolution
  /\ pc = "new"
  /\ OthersIdle

Init == InitFrom(Scenarios)

\* ---------------------------------------------------------- SetPreferred
\* The inner loop of SetPreferred: the package at slot j moves to the first
\* slot, the packages before it move one slot back.
MoveToFront(pkgs, j) ==
  <<pkgs[j]>> \o SubSeq(pkgs, 1, j - 1) \o SubSeq(pkgs, j + 1, Len(pkgs))

\* The preferred version stays where it is.
PreferNothing(d, versioned) == d

\* One round of the outer loop of SetPreferred: the first package of the url
\* with the preferred version, if there is one, moves to the front.
Prefer(d, versioned) ==
  LET pkgs == d[versioned.URL]
      found == {j \in 1..Len(pkgs) : pkgs[j].version = versioned.Version}
  IN  IF found = {} THEN d
      ELSE [d EXCEPT ![versioned.URL] =
              MoveToFront(pkgs, CHOOSE j \in found : \A k \in found : j <= k)]

\* The list is walked from the front.
RECURSIVE PreferForward(_, _, _)
PreferForward(d, list, i) ==
  IF i = 0 THEN d ELSE Prefer(PreferForward(d, list, i - 1), list[i])

\* SetPreferred walks the list from the back.
RECURSIVE PreferFrom(_, _, _)
PreferFrom(d, list, i) ==
  IF i = 0 THEN d ELSE PreferFrom(Prefer(d, list[i]), list, i - 1)

SetPreferred ==
  /\ pc = "new"
  /\ preferred # <<>>
  /\ db' = PreferFrom(db, preferred, Len(preferred))
  /\ pc' = "preferred"
  /\ UNCHANGED <<sdkVersion, printedErrors, ui, state, workingIndex, preferred,
                 solveMinSDK, solveDeps, result, others>>

\* -------------------------------------------------------------- solveDep
\* Segments()[0]
Major(v) == v[1]

\* The key names the minor instead of the major.
UrlVersionMinor(url, v) == <<url, v[2]>>

\* urlVersion: url + "-" + major
UrlVersion(url, v) == <<url, Major(v)>>

\* No candidate is turned down for its minimal SDK.
SdkNeverMismatch(sdk, candidate) == FALSE

\* The SDK test of solveDep: the candidate needs a newer SDK than the
\* application runs on.
SdkMismatch(sdk, candidate) ==
  sdk # Nil /\ candidate.minSDK # Nil /\ LessThan(sdk, candidate.minSDK)

\* The version an earlier dependency fixed is not compared with.
NeverOtherThanExisting(pkgs, urlVersion, candidate) == FALSE

\* Every candidate whose url-major has a version is passed over.
AnyExisting(pkgs, urlVersion, candidate) == urlVersion \in DOMAIN pkgs

\* An earlier dependency fixed another version for the candidate's url-major.
OtherThanExisting(pkgs, urlVersion, candidate) ==
  urlVersion \in DOMAIN pkgs /\ candidate.version # pkgs[urlVersion]

\* The minimal SDK of the partial solution once the candidate is part of it.
RaiseMinSDK(minSDK, candidate) ==
  IF minSDK = Nil \/ (candidate.minSDK # Nil /\ GreaterThan(candidate.minSDK, minSDK))
  THEN candidate.minSDK
  ELSE minSDK

\* s.state.pkgs[urlVersion] = version
MapPut(m, k, v) == [x \in DOMAIN m \cup {k} |-> IF x = k THEN v ELSE m[x]]

\* delete(s.state.pkgs, urlVersion)
MapDelete(m, k) == [x \in DOMAIN m \ {k} |-> m[x]]

\* addDeps: the dependencies are appended to the working queue.
addDeps(st, deps) == [st EXCEPT !.workingQueue = @ \o deps]

\* solverContinuation{}: the search starts at the first candidate.
NewContinuation == [index |-> 0]

\* The continuation names the candidate that was taken, not the next one.
ContinuationAtTaken(index) == [index |-> index - 1]

\* The continuation solveDep returns with a success: the index after the
\* candidate it took.
Continuation(index) == [index |-> index]

\* The warnings of the solver.
Warning(kind, url, constraints, withSDK) ==
  [kind |-> kind, url |-> url, constraints |-> constraints, withSDK |-> withSDK]

\* solveDep has nothing to warn about.
NoWarning == Warning("", "", <<>>, FALSE)

\* A warning is reported whether it was printed before or not.
ReportAgain(printed, shown, msg) ==
  IF msg = NoWarning THEN shown ELSE Append(shown, msg)

\* A warning is reported unless it was printed before.
Report(printed, shown, msg) ==
  IF msg = NoWarning \/ msg \in printed THEN shown ELSE Append(shown, msg)

\* solveDep: the candidates of dep.url from cont.index on are tried in order.
\* The outcome: success, the continuation, the undo record, the new
\* solverState and the warning the call wants to give.
solveDep(st, dep, cont) ==
  LET url == dep.url
      available == db[url]
      rest == (cont.index + 1)..Len(available)
      satisfying == {i \in rest : Check(dep.constraints, available[i].version)}
      mismatching == {i \in satisfying : SdkMismatch(sdkVersion, available[i])}
      usable == satisfying \ mismatching
      selectable ==
        {i \in usable :
           ~OtherThanExisting(st.pkgs, UrlVersion(url, available[i].version), available[i])}
      failure == [success |-> FALSE, cont |-> NewContinuation,
                  undo |-> [workingQueueLen |-> 0, urlVersion |-> Nil, minSDK |-> Nil],
                  state |-> st, msg |-> NoWarning]
  IN  IF available = <<>>
      THEN [failure EXCEPT !.msg = Warning("Package not found", url, <<>>, FALSE)]
      ELSE IF selectable # {}
      THEN LET index == CHOOSE i \in selectable : \A k \in selectable : i <= k
               candidate == available[index]
               urlVersion == UrlVersion(url, candidate.version)
               ok == urlVersion \in DOMAIN st.pkgs
               undo == [workingQueueLen |-> Len(st.workingQueue),
                        urlVersion |-> IF ok THEN Nil ELSE urlVersion,
                        minSDK |-> st.minSDK]
               installed ==
                 addDeps([st EXCEPT !.minSDK = RaiseMinSDK(st.minSDK, candidate),
                                    !.pkgs = MapPut(st.pkgs, urlVersion, candidate.version)],
                         candidate.deps)
           IN  [success |-> TRUE, cont |-> Continuation(index), undo |-> undo,
                state |-> IF ok THEN st ELSE installed, msg |-> NoWarning]
      ELSE IF cont.index # 0 \/ usable # {}
      THEN failure
      ELSE IF dep.constraints # <<>>
      THEN [failure EXCEPT !.msg = Warning("No version satisfies constraint", url,
                                           dep.constraints, mismatching # {})]
      ELSE [failure EXCEPT !.msg = Warning("No version exists for SDK version", url,
                                           <<>>, TRUE)]

\* The undo leaves the working queue as the withdrawn candidate extended it.
applyUndoKeepsQueue(st, undo) ==
  [st EXCEPT
     !.pkgs = IF undo.urlVersion # Nil THEN MapDelete(@, undo.urlVersion) ELSE @,
     !.minSDK = undo.minSDK]

\* The undo leaves the minimal SDK as the withdrawn candidate raised it.
applyUndoKeepsMinSDK(st, undo) ==
  [st EXCEPT
     !.workingQueue = IF undo.workingQueueLen # 0 THEN SubSeq(@, 1, undo.workingQueueLen) ELSE @,
     !.pkgs = IF undo.urlVersion # Nil THEN MapDelete(@, undo.urlVersion) ELSE @]

\* The undo leaves the version in the partial solution.
applyUndoKeepsVersion(st, undo) ==
  [st EXCEPT
     !.workingQueue = IF undo.workingQueueLen # 0 THEN SubSeq(@, 1, undo.workingQueueLen) ELSE @,
     !.minSDK = undo.minSDK]

\* applyUndo
applyUndo(st, undo) ==
  [st EXCEPT
     !.workingQueue = IF undo.workingQueueLen # 0 THEN SubSeq(@, 1, undo.workingQueueLen) ELSE @,
     !.pkgs = IF undo.urlVersion # Nil THEN MapDelete(@, undo.urlVersion) ELSE @,
     !.minSDK = undo.minSDK]

\* ----------------------------------------------------------------- Solve
\* The top of the stack stays where it is.
KeepTop(stack) == stack

\* Pop of the stacks of undos and continuations: the stack without its top.
Pop(stack) == SubSeq(stack, 1, Len(stack) - 1)

Top(stack) == stack[Len(stack)]

\* The entry of Solve: the SDK test, the fresh solverState and the root
\* dependencies in the working queue.
Solve ==
  /\ pc = (IF preferred = <<>> THEN "new" ELSE "preferred")
  /\ IF sdkVersion # Nil /\ solveMinSDK # Nil /\ LessThan(sdkVersion, solveMinSDK)
     THEN /\ ui' = Append(ui, Warning("SDK version does not satisfy the minimal SDK requirement",
                                      "", <<>>, TRUE))
          /\ result' = NilSolution
          /\ pc' = "done"
          /\ UNCHANGED state
     ELSE /\ state' = addDeps([EmptyState EXCEPT !.minSDK = solveMinSDK], solveDeps)
          /\ pc' = "loop"
          /\ UNCHANGED <<ui, result>>
  /\ workingIndex' = 0
  /\ UNCHANGED <<db, sdkVersion, printedErrors, preferred, solveMinSDK, solveDeps, others>>

\* The loop of Solve is at an entry of the working queue.
AtEntry == pc = "loop" /\ workingIndex >= 0 /\ workingIndex < Len(state.workingQueue)

\* The continuation of the working entry is never used.
ContinuedNever == FALSE

\* There is a continuation for the working entry: it is popped and used.
Continued == Len(state.continuations) = workingIndex + 1

\* The call of solveDep of this round of the loop.
Outcome ==
  solveDep(IF Continued THEN [state EXCEPT !.continuations = Pop(@)] ELSE state,
           state.workingQueue[workingIndex + 1],
           IF Continued THEN Top(state.continuations) ELSE NewContinuation)

\* One round of the loop of Solve on the entry at workingIndex.
SolveStep ==
  /\ AtEntry
  /\ LET r == Outcome
     IN  /\ IF r.success
            THEN /\ workingIndex' = workingIndex + 1
                 /\ state' = [r.state EXCEPT !.continuations = Append(@, r.cont),
                                             !.undos = Append(@, r.undo)]
            ELSE /\ workingIndex' = workingIndex - 1
                 /\ state' = IF r.state.undos # <<>>
                             THEN applyUndo([r.state EXCEPT !.undos = Pop(@)], Top(r.state.undos))
                             ELSE r.state
         /\ ui' = Report(printedErrors, ui, r.msg)
         /\ printedErrors' = IF r.msg = NoWarning THEN printedErrors
                             ELSE printedErrors \cup {r.msg}
  /\ UNCHANGED <<db, sdkVersion, preferred, solveMinSDK, solveDeps, result, pc, others>>

\* The solution keeps, per url, only the version the iteration over the
\* partial solution meets first.
SolutionsCutShort(st) ==
  LET chosen(url) == {st.pkgs[k] : k \in {x \in DOMAIN st.pkgs : x[1] = url}}
  IN  {[isNil |-> FALSE,
        pkgs |-> [u \in AllUrls |-> IF Len(f[u]) > 1 THEN <<f[u][1]>> ELSE f[u]],
        minSDK |-> st.minSDK] :
         f \in {g \in [AllUrls -> UNION {Orders(chosen(u)) : u \in AllUrls}] :
                  \A u \in AllUrls : g[u] \in Orders(chosen(u))}}

\* solverState.Solution: the versions of the partial solution per url, in the
\* order the iteration over the map meets them.
Solutions(st) ==
  LET chosen(url) == {st.pkgs[k] : k \in {x \in DOMAIN st.pkgs : x[1] = url}}
  IN  {[isNil |-> FALSE, pkgs |-> f, minSDK |-> st.minSDK] :
         f \in {g \in [AllUrls -> UNION {Orders(chosen(u)) : u \in AllUrls}] :
                  \A u \in AllUrls : g[u] \in Orders(chosen(u))}}

\* Every entry of the working queue is handled: Solve returns the solution.
SolveReturn ==
  /\ pc = "loop"
  /\ workingIndex >= Len(state.workingQueue)
  /\ result' \in Solutions(state)
  /\ pc' = "done"
  /\ UNCHANGED <<db, sdkVersion, printedErrors, ui, state, workingIndex, preferred,
                 solveMinSDK, solveDeps, others>>

\* The first entry failed for good: Solve returns nil.
SolveFail ==
  /\ pc = "loop"
  /\ workingIndex < Len(state.workingQueue)
  /\ workingIndex < 0
  /\ result' = NilSolution
  /\ pc' = "done"
  /\ UNCHANGED <<db, sdkVersion, printedErrors, ui, state, workingIndex, preferred,
                 solveMinSDK, solveDeps, others>>

Next == SetPreferred \/ Solve \/ SolveStep \/ SolveReturn \/ SolveFail

Spec == Init /\ [][Next]_vars

\* The scenarios without SDK requirements that stay below the bounds: the
\* registries leave two slots free, Solve is given one dependency less.
SmallScenarios ==
  {sc \in DepScenarios :
     Cardinality(sc.registries) + 1 < MaxPkgs /\ Len(sc.deps) < MaxRootDeps}

\* The descriptions the database was built from.
Entries(d) ==
  UNION {{[url |-> u, version |-> d[u][i].version, deps |-> d[u][i].deps,
           minSDK |-> d[u][i].minSDK] : i \in 1..Len(d[u])} : u \in AllUrls}

\* findSolution is called once more with the same arguments: a new Solver is
\* built from the same registries, the result of the first one is kept for
\* comparison.
SolveAgain ==
  /\ pc = "done"
  /\ ~prior.solved
  /\ prior' = [solved |-> TRUE, solution |-> result]
  /\ db' = NewSolver(Entries(db))
  /\ printedErrors' = {}
  /\ ui' = <<>>
  /\ state' = EmptyState
  /\ workingIndex' = 0
  /\ result' = NilSolution
  /\ pc' = "new"
  /\ UNCHANGED <<sdkVersion, preferred, solveMinSDK, solveDeps, str, id, lockfile, working,
                 renaming, lfpc, project, host>>

NextTwice == Next \/ SolveAgain

\* Two solvers, one after the other, on the same inputs.
TwiceSpec == Init /\ [][NextTwice]_vars

\* Solve is a sequential loop: it takes its next step as long as there is one.
FairSpec == InitFrom(SmallScenarios) /\ [][Next]_vars /\ WF_vars(Next)

\* ========================================================= package ids
\* Part 2: the package ids of a lock file.  A string is the list of its
\* runes; the runes below stand for the classes toValidPkgID tells apart.
\* Length of the strings handed to toValidPkgID.
MaxStrLen == 3

\* 'a'..'z', 'A'..'Z' and '0'..'9' as far as they occur.
Lower == {"a", "b", "c", "e", "l", "n", "p", "x", "y"}
Upper == {"Z"}
Digit == {"0", "1", "2", "3", "4", "5", "6", "7", "8", "9"}

\* The runes of the strings handed to toValidPkgID: a letter of each case, a
\* digit, the four marks it keeps and one rune it does not keep.
Runes == {"a", "Z", "1", "_", "-", ".", "/", "#"}

\* The condition of the mapping function of toValidPkgID.
Keeps(isFirst, r) ==
  \/ ~isFirst /\ r \in Digit
  \/ r \in Lower
  \/ r \in Upper
  \/ r = "_" \/ r = "-" \/ r = "." \/ r = "/"

\* toValidPkgID: strings.Map over the runes, isFirst being true for the first.
toValidPkgID(s) == [i \in 1..Len(s) |-> IF Keeps(i = 1, s[i]) THEN s[i] ELSE "_"]

\* --------------------------------------------------------- optimizePkgIDs
\* A PackageEntry is a record of URL (the url entry.URL.URL() gives), Version,
\* Path and Prefixes; a PrefixMap and LockFile.Packages are functions.  An
\* absent URL, Version or Path is the empty string.
\* strings.Join(segments, "/").
RECURSIVE Join(_)
Join(segments) ==
  IF Len(segments) = 0 THEN <<>>
  ELSE IF Len(segments) = 1 THEN segments[1]
  ELSE segments[1] \o <<"/">> \o Join(Tail(segments))

\* strings.Split(s, "/").
RECURSIVE Split(_)
Split(s) ==
  IF \A i \in 1..Len(s) : s[i] # "/" THEN <<s>>
  ELSE LET k == CHOOSE i \in 1..Len(s) : s[i] = "/" /\ \A j \in 1..(i - 1) : s[j] # "/"
       IN  <<SubSeq(s, 1, k - 1)>> \o Split(SubSeq(s, k + 1, Len(s)))

\* fmt.Sprintf("%d", n).
RECURSIVE Decimal(_)
Decimal(n) ==
  LET digits == <<"0", "1", "2", "3", "4", "5", "6", "7", "8", "9">>
  IN  IF n < 10 THEN <<digits[n + 1]>> ELSE Decimal(n \div 10) \o <<digits[(n % 10) + 1]>>

\* PackageEntry.buildIDSegments.
buildIDSegments(pe) ==
  IF pe.Path # <<>> THEN Split(toValidPkgID(pe.Path)) ELSE Split(toValidPkgID(pe.URL))

\* m[k] of a Go map: the zero value if k is no key.
MapGet(m, k, zero) == IF k \in DOMAIN m THEN m[k] ELSE zero

\* versionsOfSeen := differentVersionOf[oldID]
versionsOfSeen(differentVersionOf, seen, oldID) == MapGet(differentVersionOf, oldID, <<>>)

\* The first loop of optimizePkgIDs, from entry k of the iteration order on:
\* the packages that differ only in version are collected under the first
\* package of their url, which alone gets segments.
RECURSIVE Classify(_, _, _, _)
Classify(lf, order, k, acc) ==
  IF k > Len(order) THEN acc
  ELSE LET oldID == order[k]
           entry == lf.Packages[oldID]
           withSegments == MapPut(acc.allSegments, oldID, buildIDSegments(entry))
       IN  Classify(lf, order, k + 1,
             IF entry.Path # <<>> THEN [acc EXCEPT !.allSegments = withSegments]
             ELSE IF entry.URL \in DOMAIN acc.pkgURLs
             THEN LET seen == acc.pkgURLs[entry.URL]
                  IN  [acc EXCEPT !.differentVersionOf =
                         MapPut(@, seen, versionsOfSeen(@, seen, oldID) \o <<oldID>>)]
             ELSE [acc EXCEPT !.allSegments = withSegments,
                              !.pkgURLs = MapPut(@, entry.URL, oldID)])

\* The candidate of round i for segments: its last i segments.
Candidate(segments, i) ==
  IF i <= Len(segments)
  THEN Join(SubSeq(segments, Len(segments) - i + 1, Len(segments)))
  ELSE Join(segments)

\* The loop "use more and more segments", from round i on.  newIDs is the set
\* of the pairs <<newID, oldID>>, oldID being in the list newIDs[newID].
RECURSIVE Promote(_, _, _, _, _)
Promote(lf, differentVersionOf, allSegments, i, newIDs) ==
  IF DOMAIN allSegments = {} THEN newIDs
  ELSE LET cand(o) == Candidate(allSegments[o], i)
           isSingle(o) == \A x \in DOMAIN allSegments : cand(x) = cand(o) => x = o
           promoted == {o \in DOMAIN allSegments : isSingle(o) \/ i >= Len(allSegments[o])}
           named(o) ==
             IF o \in DOMAIN differentVersionOf
             THEN {<<cand(o) \o <<"-">> \o lf.Packages[x].Version, x>> :
                     x \in Range(differentVersionOf[o]) \cup {o}}
             ELSE {<<cand(o), o>>}
       IN  Promote(lf, differentVersionOf,
                   [o \in DOMAIN allSegments \ promoted |-> allSegments[o]],
                   i + 1, newIDs \cup UNION {named(o) : o \in promoted})

\* The old ids of newIDs[newID].
OldIDsOf(newIDs, newID) == {n[2] : n \in {x \in newIDs : x[1] = newID}}

\* fmt.Sprintf("%s--%d", newID, counter)
Numbered(newID, counter) == newID \o <<"-", "-">> \o Decimal(counter)

\* The first counter from counter on whose candidate is no final id.
RECURSIVE FreeCounter(_, _, _)
FreeCounter(newID, counter, old2New) ==
  IF \A o \in DOMAIN old2New : old2New[o] # Numbered(newID, counter) THEN counter
  ELSE FreeCounter(newID, counter + 1, old2New)

\* The inner loops of "deal with ambiguity" for one new id, from member k of
\* its list on.
RECURSIVE Disambiguate(_, _, _, _, _)
Disambiguate(newID, oldIDs, k, counter, old2New) ==
  IF k > Len(oldIDs) THEN old2New
  ELSE LET free == FreeCounter(newID, counter, old2New)
       IN  Disambiguate(newID, oldIDs, k + 1, free + 1,
                        MapPut(old2New, oldIDs[k], Numbered(newID, free)))

\* The list order: the members of S as the order meets them.
RECURSIVE InOrder(_, _)
InOrder(order, S) ==
  IF order = <<>> THEN <<>>
  ELSE (IF Head(order) \in S THEN <<Head(order)>> ELSE <<>>) \o InOrder(Tail(order), S)

\* The loop "deal with ambiguity" over the new ids of the set todo.
RECURSIVE DisambiguateAll(_, _, _, _)
DisambiguateAll(newIDs, todo, order, old2New) ==
  IF todo = {} THEN old2New
  ELSE LET newID == CHOOSE n \in todo : TRUE
       IN  DisambiguateAll(newIDs, todo \ {newID}, order,
             Disambiguate(newID, InOrder(order, OldIDsOf(newIDs, newID)), 1, 0, old2New))

\* old2New after both loops over newIDs: the unique new ids first, then the
\* ambiguous ones with a counter.
Old2New(newIDs, order) ==
  LET unique == {n \in newIDs : Cardinality(OldIDsOf(newIDs, n[1])) = 1}
      copied == [o \in {n[2] : n \in unique} |-> (CHOOSE n \in unique : n[2] = o)[1]]
  IN  DisambiguateAll(newIDs, {n[1] : n \in newIDs \ unique}, order, copied)

\* buildNewPrefixes
buildNewPrefixes(prefixes, old2New) ==
  [p \in DOMAIN prefixes |-> MapGet(old2New, prefixes[p], <<>>)]

\* The last loop of optimizePkgIDs, from entry k of the iteration order on.
RECURSIVE NewPackages(_, _, _, _, _)
NewPackages(lf, order, k, old2New, newPackages) ==
  IF k > Len(order) THEN newPackages
  ELSE NewPackages(lf, order, k + 1, old2New,
         MapPut(newPackages, MapGet(old2New, order[k], <<>>),
                [lf.Packages[order[k]] EXCEPT
                   !.Prefixes = buildNewPrefixes(@, old2New)]))

\* old2New of optimizePkgIDs.  first is the order in which the first loop
\* ranges over lf.Packages; later is the order of the later loops, which
\* decides the order of the lists in newIDs.
RenamingOf(lf, first, later) ==
  LET acc == Classify(lf, first, 1,
                      [differentVersionOf |-> <<>>, pkgURLs |-> <<>>, allSegments |-> <<>>])
  IN  Old2New(Promote(lf, acc.differentVersionOf, acc.allSegments, 1, {}), later)

\* The ids the prefixes of the lock file and of its packages refer to.
Referenced(lf) ==
  {lf.Prefixes[p] : p \in DOMAIN lf.Prefixes}
    \cup UNION {{lf.Packages[o].Prefixes[p] : p \in DOMAIN lf.Packages[o].Prefixes} :
                  o \in DOMAIN lf.Packages}

\* The renaming without the check that every referenced id has a new id.
optimizePkgIDsUnchecked(lf, first, later) ==
  [lf EXCEPT !.Packages = NewPackages(lf, later, 1, RenamingOf(lf, first, later), <<>>),
             !.Prefixes = buildNewPrefixes(@, RenamingOf(lf, first, later))]

\* LockFile.optimizePkgIDs: the check that every referenced id has a new id,
\* and the renaming.  later is also the order of the last loop, which decides
\* which of two packages stored under one new id is stored last.
optimizePkgIDs(lf, first, later) ==
  LET old2New == RenamingOf(lf, first, later)
  IN  IF \E r \in Referenced(lf) : r \notin DOMAIN old2New THEN lf
      ELSE [lf EXCEPT !.Packages = NewPackages(lf, later, 1, old2New, <<>>),
                      !.Prefixes = buildNewPrefixes(@, old2New)]

\* Number of packages of a lock file handed to optimizePkgIDs.
MaxEntries == 4

\* fmt.Sprintf("pkg%d", idCounter)
WorkingID(n) == <<"p", "k", "g">> \o Decimal(n)

\* An id that no package of the lock files below has.
MissingID == <<"p", "k", "g", "9">>

\* A remote and a local PackageEntry without prefixes.
RemoteEntry(url, version) == [URL |-> url, Version |-> version, Path |-> <<>>, Prefixes |-> <<>>]
LocalEntry(path) == [URL |-> <<>>, Version |-> <<>>, Path |-> path, Prefixes |-> <<>>]

\* The packages of the lock files handed to optimizePkgIDs, in the order in
\* which they get their working ids.  Either four versions of x/a and a
\* version of y/a (same last segment), or a version of x/a and of y/a, b#
\* and b% (the same after toValidPkgID) and the path a.
VersionPool ==
  <<RemoteEntry(<<"x", "/", "a">>, <<"1">>), RemoteEntry(<<"x", "/", "a">>, <<"2">>),
    RemoteEntry(<<"x", "/", "a">>, <<"3">>), RemoteEntry(<<"x", "/", "a">>, <<"4">>),
    RemoteEntry(<<"y", "/", "a">>, <<"1">>)>>

ClashPool ==
  <<RemoteEntry(<<"x", "/", "a">>, <<"1">>), RemoteEntry(<<"y", "/", "a">>, <<"1">>),
    RemoteEntry(<<"b", "#">>, <<"1">>), RemoteEntry(<<"b", "%">>, <<"1">>),
    LocalEntry(<<"a">>)>>

\* The packages of the pool at the indices of I under the working ids pkg0,
\* pkg1, ...
PackagesOf(pool, I) ==
  LET list == InOrder([i \in 1..Len(pool) |-> i], I)
  IN  [o \in {WorkingID(n - 1) : n \in 1..Len(list)} |->
         pool[list[CHOOSE n \in 1..Len(list) : WorkingID(n - 1) = o]]]

\* The lock files with the packages pkgs: without prefixes, or with one
\* prefix, of the entry package or of the package pkg0, that refers to a
\* package or to an id that is missing.
LockFilesOf(pkgs) ==
  LET targets == DOMAIN pkgs \cup {MissingID}
      pre(t) == [q \in {"pre1"} |-> t]
  IN  {[Prefixes |-> <<>>, Packages |-> pkgs]}
        \cup {[Prefixes |-> pre(t), Packages |-> pkgs] : t \in targets}
        \cup (IF WorkingID(0) \in DOMAIN pkgs
              THEN {[Prefixes |-> <<>>,
                     Packages |-> [pkgs EXCEPT ![WorkingID(0)].Prefixes = pre(t)]] : t \in targets}
              ELSE {})

OptLockFiles ==
  UNION {LockFilesOf(PackagesOf(pool, I)) :
           pool \in {VersionPool, ClashPool},
           I \in {J \in SUBSET (1..5) : Cardinality(J) <= MaxEntries}}

\* A lock file with working ids is handed to optimizePkgIDs.
OptInit ==
  /\ SolverIdle
  /\ prior = NoPrior
  /\ str = <<>>
  /\ id = NoId
  /\ lockfile \in OptLockFiles
  /\ working = lockfile
  /\ renaming = <<>>
  /\ lfpc = "built"
  /\ NoProject
  /\ NoHost

\* The call of optimizePkgIDs, for some orders of the iterations over its maps.
CallOptimizePkgIDs ==
  /\ lfpc = "built"
  /\ \E first, later \in Orders(DOMAIN lockfile.Packages) :
       /\ lockfile' = optimizePkgIDs(lockfile, first, later)
       /\ renaming' = RenamingOf(lockfile, first, later)
  /\ lfpc' = "optimized"
  /\ UNCHANGED <<db, sdkVersion, printedErrors, ui, state, workingIndex, preferred,
                 solveMinSDK, solveDeps, result, pc, prior, str, id, working, project, host>>

OptNext == CallOptimizePkgIDs

OptSpec == OptInit /\ [][OptNext]_vars

\* A string is handed to toValidPkgID.
IdInit ==
  /\ SolverIdle
  /\ prior = NoPrior
  /\ str \in SeqsUpTo(Runes, MaxStrLen)
  /\ id = NoId
  /\ NoLockFile
  /\ NoProject
  /\ NoHost

\* The call of toValidPkgID.
CallToValidPkgID ==
  /\ ~id.returned
  /\ id' = [returned |-> TRUE, v |-> toValidPkgID(str)]
  /\ UNCHANGED <<db, sdkVersion, printedErrors, ui, state, workingIndex, preferred,
                 solveMinSDK, solveDeps, result, pc, prior, str, lockfile, working, renaming,
                 lfpc, project, host>>

IdNext == CallToValidPkgID

IdSpec == IdInit /\ [][IdNext]_vars

\* ====================================================== ProjectPkgManager
\* A Spec is a record of Deps, a function from prefixes to SpecPackage
\* records of URL (a url of the registries, NoURL if absent), Version (the
\* constraints the text parses to) and Path (a list of runes, empty if
\* absent).  The projects have no SDK constraint: Spec.Environment.SDK and
\* LockFile.SDK are empty.
NoURL == ""

RemoteDep(url, constraints) == [URL |-> url, Version |-> constraints, Path |-> <<>>]

LocalDep(path) == [URL |-> NoURL, Version |-> <<>>, Path |-> path]

\* The prefixes of the path dependencies and of the others.
LocalPrefixes(deps) == {q \in DOMAIN deps : deps[q].Path # <<>>}

RemotePrefixes(deps) == DOMAIN deps \ LocalPrefixes(deps)

\* ------------------------------------------------------- texts of versions
\* Version.String(): the segments, joined by dots.
VStr(v) == Decimal(v[1]) \o <<".">> \o Decimal(v[2])

\* The number a list of decimal digits stands for.
RECURSIVE Number(_)
Number(digits) ==
  LET value(d) == CHOOSE n \in 0..9 : Decimal(n) = <<d>>
  IN  IF digits = <<>> THEN 0
      ELSE 10 * Number(SubSeq(digits, 1, Len(digits) - 1)) + value(digits[Len(digits)])

\* version.NewVersion: the segments before and after the first dot.
NewVersion(text) ==
  LET dot == CHOOSE i \in 1..Len(text) : text[i] = "." /\ \A j \in 1..(i - 1) : text[j] # "."
  IN  <<Number(SubSeq(text, 1, dot - 1)), Number(SubSeq(text, dot + 1, Len(text)))>>

\* parseConstraint("^" + version): at least the version, below the next
\* incompatible one (the first segment that is not 0 is raised, the later
\* ones are reset).
Caret(v) ==
  LET upper == IF v[1] # 0 THEN <<v[1] + 1, 0>>
               ELSE IF v[2] # 0 THEN <<0, v[2] + 1>>
               ELSE v
  IN  <<[op |-> ">=", v |-> v], [op |-> "<", v |-> upper]>>

\* The text of a url and the url of a text: urls are single letters.
URLText(url) == <<url>>

URLOf(text) == text[1]

\* ------------------------------------------------------------------ paths
\* filepath.IsAbs
IsAbs(p) == p # <<>> /\ p[1] = "/"

\* strings.HasPrefix(p, "..")
HasDotsPrefix(p) == Len(p) >= 2 /\ p[1] = "." /\ p[2] = "."

\* filepath.Clean on the elements of a path: empty elements and "." are
\* dropped, ".." drops the element before it, or is dropped at the root.
RECURSIVE CleanSegments(_, _, _)
CleanSegments(rooted, todo, done) ==
  IF todo = <<>> THEN done
  ELSE LET seg == Head(todo)
       IN  IF seg = <<>> \/ seg = <<".">>
           THEN CleanSegments(rooted, Tail(todo), done)
           ELSE IF seg = <<".", ".">>
           THEN IF done # <<>> /\ Top(done) # <<".", ".">>
                THEN CleanSegments(rooted, Tail(todo), Pop(done))
                ELSE IF rooted THEN CleanSegments(rooted, Tail(todo), done)
                ELSE CleanSegments(rooted, Tail(todo), Append(done, seg))
           ELSE CleanSegments(rooted, Tail(todo), Append(done, seg))

\* The path of cleaned elements: "." if a relative path has none.
PathOf(rooted, segs) ==
  IF rooted THEN <<"/">> \o Join(segs)
  ELSE IF segs = <<>> THEN <<".">>
  ELSE Join(segs)

\* filepath.Clean
Clean(p) == PathOf(IsAbs(p), CleanSegments(IsAbs(p), Split(p), <<>>))

\* filepath.Join of a directory and a path.
JoinPath(dir, p) == Clean(dir \o <<"/">> \o p)

\* The number of leading elements two paths share.
CommonLen(b, t) ==
  CHOOSE k \in 0..Len(b) :
    /\ k <= Len(t) /\ SubSeq(b, 1, k) = SubSeq(t, 1, k)
    /\ \A x \in (k + 1)..Len(b) : ~(x <= Len(t) /\ SubSeq(b, 1, x) = SubSeq(t, 1, x))

\* Up from b to the directory it shares with t, then down to t.
UpAndDown(b, t, common) ==
  PathOf(FALSE, [i \in 1..(Len(b) - common) |-> <<".", ".">>] \o SubSeq(t, common + 1, Len(t)))

\* filepath.Rel of two absolute paths.
Rel(base, targ) ==
  UpAndDown(CleanSegments(TRUE, Split(base), <<>>), CleanSegments(TRUE, Split(targ), <<>>),
            CommonLen(CleanSegments(TRUE, Split(base), <<>>),
                      CleanSegments(TRUE, Split(targ), <<>>)))

\* strings.TrimSuffix(pkgPath, "/."), unless pkgPath is "/.".
TrimSlashDot(p) ==
  IF p # <<"/", ".">> /\ Len(p) >= 2 /\ SubSeq(p, Len(p) - 1, Len(p)) = <<"/", ".">>
  THEN SubSeq(p, 1, Len(p) - 2)
  ELSE p

\* filepath.Dir(s.path) of the project: the directory /p.
EntryDir == <<"/", "p">>

\* ---------------------------------------------------------- visitLocalDeps
\* The package.yaml in a directory: a record of exists and Deps.
SpecAt(fullPath) == IF fullPath \in DOMAIN localSpecs THEN localSpecs[fullPath] ELSE NoFile

\* visit simplifies a cleaned pkgPath that starts with dots, and removes a
\* trailing "/.".
Simplify(cleaned) ==
  TrimSlashDot(IF HasDotsPrefix(cleaned) THEN Rel(EntryDir, JoinPath(EntryDir, cleaned))
               ELSE cleaned)

\* pkgPath of visit: the path of a dependency of the spec in dir, relative
\* to the project or absolute.
PkgPath(path, dir, isEntry) ==
  Simplify(Clean(IF ~IsAbs(path) /\ ~isEntry THEN JoinPath(dir, path) ELSE path))

\* fullPath of visit.
FullPath(pkgPath) == IF IsAbs(pkgPath) THEN pkgPath ELSE Clean(JoinPath(EntryDir, pkgPath))

\* A call of visit: the dependencies of a spec, the directory of the spec
\* and the prefixes of the path dependencies the loop has yet to visit.
Frame(deps, dir, isEntry, order) ==
  [Deps |-> deps, dir |-> dir, isEntry |-> isEntry, todo |-> InOrder(order, LocalPrefixes(deps))]

\* visit: the calls of the callback for the path dependencies, depth first.
\* order is the order in which the loops range over the dependency maps.
RECURSIVE Visit(_, _, _, _)
RECURSIVE VisitAt(_, _, _, _, _, _)
Visit(stack, order, alreadyVisited, calls) ==
  IF stack = <<>> THEN calls
  ELSE IF Top(stack).todo = <<>> THEN Visit(Pop(stack), order, alreadyVisited, calls)
  ELSE VisitAt(Append(Pop(stack), [Top(stack) EXCEPT !.todo = Tail(@)]), order,
               alreadyVisited, calls,
               PkgPath(Top(stack).Deps[Head(Top(stack).todo)].Path, Top(stack).dir,
                       Top(stack).isEntry),
               FullPath(PkgPath(Top(stack).Deps[Head(Top(stack).todo)].Path, Top(stack).dir,
                                Top(stack).isEntry)))

\* The body of the loop of visit for a dependency with the given pkgPath and
\* fullPath: a directory that was visited is skipped, the callback is called
\* for the others, and visit goes on with the package.yaml if there is one.
VisitAt(rest, order, alreadyVisited, calls, pkgPath, fullPath) ==
  IF fullPath \in alreadyVisited THEN Visit(rest, order, alreadyVisited, calls)
  ELSE Visit(IF SpecAt(fullPath).exists
             THEN Append(rest, Frame(SpecAt(fullPath).Deps, pkgPath, FALSE, order))
             ELSE rest,
             order, alreadyVisited \cup {fullPath},
             Append(calls, [pkgPath |-> pkgPath, fullPath |-> fullPath,
                            depSpec |-> SpecAt(fullPath)]))

\* Spec.visitLocalDeps, after the call of the callback for the spec itself.
visitLocalDeps(s, order) ==
  Visit(<<Frame(s.Deps, EntryDir, TRUE, order)>>, order, {EntryDir}, <<>>)

\* The prefixes of a spec and of the specs in the directories.
AllPrefixes(s) ==
  DOMAIN s.Deps
    \cup UNION {DOMAIN localSpecs[d].Deps : d \in {x \in DOMAIN localSpecs : localSpecs[x].exists}}

\* The dependencies on urls of a DependencyMap, for the prefixes of a list.
SolverDepsOf(deps, list) ==
  [i \in 1..Len(list) |-> NewSolverDep(deps[list[i]].URL, deps[list[i]].Version)]

\* The concatenation of a list of lists.
RECURSIVE Concat(_)
Concat(lists) == IF lists = <<>> THEN <<>> ELSE Head(lists) \o Concat(Tail(lists))

\* The callback of BuildSolverDeps on the calls of visitLocalDeps: the
\* dependencies on urls of the specs, as the loop meets them.
CalledSolverDeps(calls, order) ==
  Concat([i \in 1..Len(calls) |->
            IF calls[i].depSpec.exists
            THEN SolverDepsOf(calls[i].depSpec.Deps,
                              InOrder(order, RemotePrefixes(calls[i].depSpec.Deps)))
            ELSE <<>>])

\* Spec.BuildSolverDeps: the dependencies on urls of the spec and of the
\* specs of the path dependencies.
BuildSolverDeps(s, order) ==
  SolverDepsOf(s.Deps, InOrder(order, RemotePrefixes(s.Deps)))
    \o CalledSolverDeps(visitLocalDeps(s, order), order)

\* ----------------------------------------------------------- BuildLockFile
\* fmt.Sprintf("localPkg%d", idCounter)
LocalID(n) == <<"l", "o", "c", "a", "l", "P", "k", "g">> \o Decimal(n)

\* The loop takes one version of each url only.
SolutionPkgsFirst(solution, urls) ==
  [i \in 1..Len(urls) |-> <<urls[i], solution.pkgs[urls[i]][1]>>]

\* The packages of a solution as (url, version), in the order in which the
\* first loop of BuildLockFile counts them; urls is the order in which it
\* ranges over solution.pkgs.
SolutionPkgs(solution, urls) ==
  Concat([i \in 1..Len(urls) |->
            [j \in 1..Len(solution.pkgs[urls[i]]) |-> <<urls[i], solution.pkgs[urls[i]][j]>>]])

\* pkgIDs: from (url, version text) to pkg0, pkg1, ...
PkgIDs(list) ==
  [k \in {<<list[i][1], VStr(list[i][2])>> : i \in 1..Len(list)} |->
     WorkingID((CHOOSE i \in 1..Len(list) : k = <<list[i][1], VStr(list[i][2])>>) - 1)]

\* The first of the versions with an index in fits, as text.
FirstOf(versions, fits) ==
  IF fits = {} THEN [ok |-> FALSE, vStr |-> <<>>]
  ELSE [ok |-> TRUE, vStr |-> VStr(versions[CHOOSE i \in fits : \A k \in fits : i <= k])]

\* Solution.versionFor: the first version of the url in the solution that
\* satisfies the constraints.
versionFor(sol, url, constraints) ==
  FirstOf(sol.pkgs[url], {i \in 1..Len(sol.pkgs[url]) : Check(constraints, sol.pkgs[url][i])})

\* buildPrefixes returns an error: versionFor finds no version.
PrefixesFail(deps, sol) ==
  \E q \in RemotePrefixes(deps) : ~versionFor(sol, deps[q].URL, deps[q].Version).ok

\* buildPrefixes: the prefixes of the dependencies on urls.
buildPrefixes(deps, sol, pkgIDs) ==
  [q \in RemotePrefixes(deps) |->
     MapGet(pkgIDs, <<deps[q].URL, versionFor(sol, deps[q].URL, deps[q].Version).vStr>>, <<>>)]

\* The dependencies of a description as a DependencyMap: each under the name
\* of its url.
DepsOfDesc(deps) ==
  [q \in {deps[i].url : i \in 1..Len(deps)} |->
     RemoteDep(q, deps[CHOOSE k \in 1..Len(deps) : deps[k].url = q].constraints)]

\* The spec file of a downloaded package: the dependencies of its
\* description.
PkgSpec(url, version) ==
  [Deps |-> DepsOfDesc((CHOOSE d \in Entries(db) : d.url = url /\ d.version = version).deps)]

\* The body of the loop of addLocalDependencies: the directory fullPath gets
\* the next localPkg id unless it has one, the prefix refers to that id.
\* acc holds localPkgIDs, idCounter, the prefixes that are being filled and
\* result.Packages.
Target(acc, prefix, fullPath) ==
  IF fullPath \in DOMAIN acc.localPkgIDs
  THEN [acc EXCEPT !.prefixes = MapPut(@, prefix, acc.localPkgIDs[fullPath])]
  ELSE [acc EXCEPT !.localPkgIDs = MapPut(@, fullPath, LocalID(acc.idCounter)),
                   !.idCounter = @ + 1,
                   !.prefixes = MapPut(@, prefix, LocalID(acc.idCounter))]

\* addLocalDependencies on the path dependencies todo of a spec in dir.
RECURSIVE addLocalDependencies(_, _, _, _)
addLocalDependencies(deps, dir, todo, acc) ==
  IF todo = <<>> THEN acc
  ELSE addLocalDependencies(deps, dir, Tail(todo),
         Target(acc, Head(todo),
                Clean(IF IsAbs(deps[Head(todo)].Path) THEN deps[Head(todo)].Path
                      ELSE JoinPath(dir, deps[Head(todo)].Path))))

\* The callback of BuildLockFile gives the directory the next localPkg id
\* unless it has one.
Seen(acc, fullPath) ==
  IF fullPath \in DOMAIN acc.localPkgIDs THEN acc
  ELSE [acc EXCEPT !.localPkgIDs = MapPut(@, fullPath, LocalID(acc.idCounter)),
                   !.idCounter = @ + 1]

\* The callback stores the package of the call c with its prefixes.
Stored(acc, c) ==
  [acc EXCEPT !.Packages = MapPut(@, acc.localPkgIDs[c.fullPath],
                                  [URL |-> <<>>, Version |-> <<>>, Path |-> c.pkgPath,
                                   Prefixes |-> acc.prefixes])]

\* The callback BuildLockFile hands to visitLocalDeps, for the call c: the
\* prefixes of buildPrefixes and addLocalDependencies.
Called(c, sol, pkgIDs, alloc, acc) ==
  Stored(IF c.depSpec.exists
         THEN addLocalDependencies(c.depSpec.Deps, c.fullPath,
                                   InOrder(alloc, LocalPrefixes(c.depSpec.Deps)),
                                   [acc EXCEPT !.prefixes =
                                      buildPrefixes(c.depSpec.Deps, sol, pkgIDs)])
         ELSE [acc EXCEPT !.prefixes = <<>>],
         c)

\* The calls of the callback from the k-th on.
RECURSIVE VisitCallback(_, _, _, _, _, _)
VisitCallback(calls, k, sol, pkgIDs, alloc, acc) ==
  IF k > Len(calls) THEN acc
  ELSE VisitCallback(calls, k + 1, sol, pkgIDs, alloc,
                     Called(calls[k], sol, pkgIDs, alloc, Seen(acc, calls[k].fullPath)))

\* The packages of the solution under their working ids.
RemotePackages(list, sol, pkgIDs) ==
  [o \in {WorkingID(i - 1) : i \in 1..Len(list)} |->
     [URL |-> URLText(list[CHOOSE k \in 1..Len(list) : o = WorkingID(k - 1)][1]),
      Version |-> VStr(list[CHOOSE k \in 1..Len(list) : o = WorkingID(k - 1)][2]),
      Path |-> <<>>,
      Prefixes |-> buildPrefixes(PkgSpec(list[CHOOSE k \in 1..Len(list) : o = WorkingID(k - 1)][1],
                                         list[CHOOSE k \in 1..Len(list) : o = WorkingID(k - 1)][2]).Deps,
                                 sol, pkgIDs)]]

\* BuildLockFile returns an error: buildPrefixes fails for the spec, for a
\* package of the solution or for a spec visitLocalDeps comes to.
BuildFails(s, sol, list, calls) ==
  \/ PrefixesFail(s.Deps, sol)
  \/ \E i \in 1..Len(list) : PrefixesFail(PkgSpec(list[i][1], list[i][2]).Deps, sol)
  \/ \E i \in 1..Len(calls) : calls[i].depSpec.exists /\ PrefixesFail(calls[i].depSpec.Deps, sol)

\* The lock file with the prefixes of the entry package.
Assembled(prefixes, packages) == [ok |-> TRUE, lf |-> [Prefixes |-> prefixes, Packages |-> packages]]

\* BuildLockFile from the entry prefixes on: the packages of the path
\* dependencies are added.  entry holds localPkgIDs, idCounter, the prefixes
\* of the entry package and the packages of the solution.
WithLocalPackages(entry, calls, sol, pkgIDs, alloc) ==
  Assembled(entry.prefixes, VisitCallback(calls, 1, sol, pkgIDs, alloc, entry).Packages)

\* BuildLockFile for the packages list of the solution and the calls of
\* visitLocalDeps.
Working(s, sol, alloc, list, calls, pkgIDs) ==
  IF BuildFails(s, sol, list, calls) THEN [ok |-> FALSE, lf |-> EmptyLockFile]
  ELSE WithLocalPackages(
         addLocalDependencies(s.Deps, EntryDir, InOrder(alloc, LocalPrefixes(s.Deps)),
                              [localPkgIDs |-> <<>>, idCounter |-> Len(list),
                               prefixes |-> buildPrefixes(s.Deps, sol, pkgIDs),
                               Packages |-> RemotePackages(list, sol, pkgIDs)]),
         calls, sol, pkgIDs, alloc)

\* BuildLockFile up to the call of optimizePkgIDs: whether it succeeds, and
\* the lock file with the working ids.  urls is the order of the loop over
\* solution.pkgs, alloc the order of the loops of addLocalDependencies and
\* visit the order of the loops of visitLocalDeps.
WorkingLockFile(s, sol, urls, alloc, visit) ==
  Working(s, sol, alloc, SolutionPkgs(sol, urls), visitLocalDeps(s, visit),
          PkgIDs(SolutionPkgs(sol, urls)))

\* The urls a solution has packages of.
SolutionUrls(sol) == {u \in AllUrls : sol.pkgs[u] # <<>>}

\* The path prefixes of a spec and of the specs in the directories.
PathPrefixes(s) ==
  LocalPrefixes(s.Deps)
    \cup UNION {LocalPrefixes(localSpecs[d].Deps) :
                  d \in {x \in DOMAIN localSpecs : localSpecs[x].exists}}

\* What optimizePkgIDs makes of the lock file with the working ids, over the
\* orders in which its loops range over their maps.
Optimized(w) ==
  IF ~w.ok THEN {[ok |-> FALSE, working |-> w.lf, lf |-> w.lf, old2New |-> <<>>]}
  ELSE {[ok |-> TRUE, working |-> w.lf,
         lf |-> optimizePkgIDs(w.lf, first, later),
         old2New |-> RenamingOf(w.lf, first, later)] :
          first \in Orders(DOMAIN w.lf.Packages), later \in Orders(DOMAIN w.lf.Packages)}

\* Spec.BuildLockFile: what it may return for the spec s and a solution,
\* over the orders in which the loops range over their maps: an error, or
\* the lock file, with the lock file before optimizePkgIDs and old2New.
BuildLockFile(s, sol) ==
  UNION {Optimized(WorkingLockFile(s, sol, urls, alloc, visit)) :
           urls \in Orders(SolutionUrls(sol)),
           alloc \in Orders(PathPrefixes(s)),
           visit \in Orders(PathPrefixes(s))}


\* ------------------------------------------------- the project, its files
\* The number of operations of the ProjectPkgManager in a run.
MaxOps == 2

\* The constraint "< n.0".
Below(n) == <<[op |-> "<", v |-> <<n, 0>>]>>

\* Registries with four major versions of b, each depending on a lower one.
ChainRegistry ==
  {NewDesc(<<"b", <<n, 0>>>>,
           [deps |-> IF n = 1 THEN <<>> ELSE <<NewSolverDep("b", Below(n))>>, minSDK |-> Nil]) :
     n \in 1..4}

\* Registries with two major versions of b, the higher depending on the
\* lower.
MajorsRegistry ==
  {NewDesc(<<"b", <<1, 0>>>>, [deps |-> <<>>, minSDK |-> Nil]),
   NewDesc(<<"b", <<2, 0>>>>, [deps |-> <<NewSolverDep("b", Below(2))>>, minSDK |-> Nil])}

\* Registries with two versions of b and a package c that depends on the
\* lower one.
PlainRegistry ==
  {NewDesc(<<"b", <<1, 0>>>>, [deps |-> <<>>, minSDK |-> Nil]),
   NewDesc(<<"b", <<1, 1>>>>, [deps |-> <<>>, minSDK |-> Nil]),
   NewDesc(<<"c", <<1, 0>>>>,
           [deps |-> <<NewSolverDep("b", CLow)>>, minSDK |-> Nil])}

\* A package.yaml with the given dependencies.
SpecFile(deps) == [exists |-> TRUE, Deps |-> deps]

\* A directory next to the project: /p/l with a package.yaml that depends
\* on the project directory and on b, or /p/n without a package.yaml.
WithSpecLayout ==
  <<"/", "p", "/", "l">> :>
     SpecFile(("up" :> LocalDep(<<".", ".">>)) @@ ("b" :> RemoteDep("b", CAny)))

WithoutSpecLayout == <<"/", "p", "/", "n">> :> NoFile

\* The arguments of InstallLocalPkg: a name and a path.
LocalPkgs ==
  ("s" :> <<".">>) @@ ("l" :> <<"l">>) @@ ("n" :> <<".", ".", "/", "p", "/", "n">>)

\* What a run starts from: the registries, the directories and the
\* package.yaml of the project.
ProjectScenarios ==
  [registries : {MajorsRegistry}, localSpecs : {WithoutSpecLayout},
   spec : {NoFile, SpecFile("b" :> RemoteDep("b", CAny)),
           SpecFile(("old" :> RemoteDep("b", CAny)) @@ ("n" :> LocalDep(<<"n">>)))}]
    \cup [registries : {PlainRegistry}, localSpecs : {WithSpecLayout},
          spec : {NoFile, SpecFile("c" :> RemoteDep("c", CAny))}]
    \cup [registries : {PlainRegistry}, localSpecs : {WithoutSpecLayout},
          spec : {NoFile, SpecFile("e" :> RemoteDep("e", CAny))}]

solverVars ==
  <<db, sdkVersion, printedErrors, ui, state, workingIndex, preferred, solveMinSDK,
    solveDeps, result, pc>>

built == <<lockfile, working, renaming, lfpc>>

aside == <<prior, str, id, host>>

\* A ProjectPkgManager on a project without package.lock.
ManagerInit ==
  /\ \E sc \in ProjectScenarios :
       /\ db = NewSolver(sc.registries)
       /\ localSpecs = sc.localSpecs
       /\ specOnDisk = sc.spec
  /\ lockOnDisk = NoFile
  /\ call = NoCall
  /\ returned = NoCall
  /\ ops = 0
  /\ sdkVersion = Nil
  /\ preferred = <<>>
  /\ solveMinSDK = Nil
  /\ solveDeps = <<>>
  /\ printedErrors = {}
  /\ ui = <<>>
  /\ state = EmptyState
  /\ workingIndex = 0
  /\ result = NilSolution
  /\ pc = "none"
  /\ prior = NoPrior
  /\ NoHost
  /\ str = <<>>
  /\ id = NoId
  /\ NoLockFile

\* ---------------------------------------------------------- readSpecAndLock
\* No prefix is ever reported as missing.
NoMissingPrefixes(lf, spec) == {}

\* missingPrefixes of readSpecAndLock.
MissingPrefixes(lf, spec) == {q \in DOMAIN lf.Prefixes : q \notin DOMAIN spec.Deps}

\* PackageEntry.toSpecPackage
toSpecPackage(pe) ==
  [URL |-> IF pe.URL = <<>> THEN NoURL ELSE URLOf(pe.URL),
   Version |-> IF pe.Version # <<>> THEN Caret(NewVersion(pe.Version)) ELSE <<>>,
   Path |-> pe.Path]

\* NewSpecFromLockFile: an error if a prefix refers to a missing package.
NewSpecFromLockFile(lf) ==
  IF \E q \in DOMAIN lf.Prefixes : lf.Prefixes[q] \notin DOMAIN lf.Packages
  THEN [ok |-> FALSE, Deps |-> <<>>]
  ELSE [ok |-> TRUE,
        Deps |-> [q \in DOMAIN lf.Prefixes |-> toSpecPackage(lf.Packages[lf.Prefixes[q]])]]

\* readSpecAndLock: an error, or the spec and the lock file (lf.exists is
\* false for a nil lock file).
readSpecAndLock ==
  IF lockOnDisk.exists /\ specOnDisk.exists
       /\ MissingPrefixes(lockOnDisk.lf, specOnDisk) # {}
  THEN [err |-> TRUE, spec |-> [Deps |-> <<>>], lf |-> NoFile]
  ELSE IF specOnDisk.exists
  THEN [err |-> FALSE, spec |-> [Deps |-> specOnDisk.Deps], lf |-> lockOnDisk]
  ELSE IF lockOnDisk.exists
  THEN [err |-> ~NewSpecFromLockFile(lockOnDisk.lf).ok,
        spec |-> [Deps |-> NewSpecFromLockFile(lockOnDisk.lf).Deps], lf |-> lockOnDisk]
  ELSE [err |-> FALSE, spec |-> [Deps |-> <<>>], lf |-> NoFile]

\* ------------------------------------------------------------ findSolution
\* No package of the old lock file is unpreferred.
NoEntry == [URL |-> <<>>, Version |-> <<>>, Path |-> <<>>, Prefixes |-> <<>>]

\* preferred of findSolution: the packages of the old lock file that have a
\* url, except the unpreferred one.
PreferredOf(lf, unpreferred) ==
  {[URL |-> URLOf(lf.Packages[o].URL), Version |-> NewVersion(lf.Packages[o].Version)] :
     o \in {x \in DOMAIN lf.Packages :
              /\ lf.Packages[x].URL # <<>>
              /\ ~(unpreferred # NoEntry /\ lf.Packages[x].URL = unpreferred.URL
                     /\ lf.Packages[x].Version = unpreferred.Version)}}

\* findSolution up to the call of Solve: a new Solver, SetPreferred with the
\* packages of the old lock file in the order the loop meets them.
findSolution(solverDeps, oldLock, unpreferred) ==
  /\ db' = NewSolver(Entries(db))
  /\ preferred' \in (IF oldLock.exists THEN Orders(PreferredOf(oldLock.lf, unpreferred))
                      ELSE {<<>>})
  /\ solveMinSDK' = Nil
  /\ solveDeps' = solverDeps
  /\ printedErrors' = {}
  /\ ui' = <<>>
  /\ state' = EmptyState
  /\ workingIndex' = 0
  /\ result' = NilSolution
  /\ pc' = "new"
  /\ UNCHANGED sdkVersion

\* ------------------------------------------------------------- operations
\* No operation is running and another one may be called.
Idle == call = NoCall /\ ops < MaxOps /\ pc \in {"none", "done"}

\* The operation op returns before it calls findSolution.
ReturnAtOnce(op, err) ==
  /\ returned' = [op |-> op, err |-> err]
  /\ ops' = ops + 1
  /\ UNCHANGED <<solverVars, built, aside, specOnDisk, lockOnDisk, localSpecs, call>>

\* The operation op goes on to findSolution with the spec s.
Begin(op, s, url, force, solverDeps, oldLock, unpreferred) ==
  /\ findSolution(solverDeps, oldLock, unpreferred)
  /\ call' = [op |-> op, spec |-> s, url |-> url, force |-> force]
  /\ ops' = ops + 1
  /\ UNCHANGED <<built, aside, specOnDisk, lockOnDisk, localSpecs, returned>>

\* The running operation returns and leaves the given files.
Return(err, specFile, lockFile) ==
  /\ returned' = [op |-> call.op, err |-> err]
  /\ call' = NoCall
  /\ specOnDisk' = specFile
  /\ lockOnDisk' = lockFile
  /\ UNCHANGED <<solverVars, aside, localSpecs, ops>>

\* The running operation returns an error: no file is written.
Fail == Return(TRUE, specOnDisk, lockOnDisk) /\ UNCHANGED built

\* ------------------------------------------------------------ WriteToFile
\* yaml.Marshal of a LockFile: the entries of the document.  Keys are
\* written in sorted order and empty maps and strings are left out, so the
\* text is given by the set of the entries that are not empty.
Marshal(lf) ==
  {<<"prefixes", q, lf.Prefixes[q]>> : q \in DOMAIN lf.Prefixes}
    \cup {<<"packages", o>> : o \in DOMAIN lf.Packages}
    \cup {<<"packages", o, "url", lf.Packages[o].URL>> :
             o \in {x \in DOMAIN lf.Packages : lf.Packages[x].URL # <<>>}}
    \cup {<<"packages", o, "version", lf.Packages[o].Version>> :
             o \in {x \in DOMAIN lf.Packages : lf.Packages[x].Version # <<>>}}
    \cup {<<"packages", o, "path", lf.Packages[o].Path>> :
             o \in {x \in DOMAIN lf.Packages : lf.Packages[x].Path # <<>>}}
    \cup UNION {{<<"packages", o, "prefixes", q, lf.Packages[o].Prefixes[q]>> :
                   q \in DOMAIN lf.Packages[o].Prefixes} : o \in DOMAIN lf.Packages}

\* The file is written whatever it holds.
writeFileAlways(file, lf, b) ==
  [exists |-> TRUE, lf |-> lf, writes |-> (IF file.exists THEN file.writes ELSE 0) + 1,
   kept |-> IF file.exists THEN file.kept ELSE 0]

\* writeFileIfChanged with the text b of lf: a file that holds b is left as
\* it is (kept counts these calls), any other is written (writes counts the
\* writes, each of which changes the modification time).
writeFileIfChanged(file, lf, b) ==
  IF file.exists /\ Marshal(file.lf) = b THEN [file EXCEPT !.kept = @ + 1]
  ELSE [exists |-> TRUE, lf |-> lf, writes |-> (IF file.exists THEN file.writes ELSE 0) + 1,
        kept |-> IF file.exists THEN file.kept ELSE 0]

\* LockFile.WriteToFile on the file at lf.path.
WriteToFile(file, lf) == writeFileIfChanged(file, lf, Marshal(lf))

\* Every operation writes the spec it has solved.
WrittenSpecOfAll(files, s, lf) ==
  IF files = "update" THEN SpecFile(NewSpecFromLockFile(lf).Deps) ELSE SpecFile(s.Deps)

\* package.yaml after the writes of the running operation: as it was
\* ("lock": updatedLock.WriteToFile alone), or written by writeSpecAndLock
\* with the spec s ("both") or with the dependencies of the lock file
\* ("update").
WrittenSpec(files, s, lf) ==
  CASE files = "lock" -> specOnDisk
    [] files = "both" -> SpecFile(s.Deps)
    [] files = "update" -> SpecFile(NewSpecFromLockFile(lf).Deps)

\* The end of the running operation: BuildLockFile for the spec s and the
\* solution, then the files are written: the lock file alone ("lock"), the
\* spec and the lock file ("both"), or the lock file and the spec made from
\* it ("update").
BuildAndWrite(s, files) ==
  \E b \in BuildLockFile(s, result) :
    IF ~b.ok \/ (files = "update" /\ ~NewSpecFromLockFile(b.lf).ok) THEN Fail
    ELSE /\ working' = b.working
         /\ lockfile' = b.lf
         /\ renaming' = b.old2New
         /\ lfpc' = "optimized"
         /\ Return(FALSE, WrittenSpec(files, s, b.lf),
                   WriteToFile(lockOnDisk, b.lf))

\* InstallLocalPkg with a name and a path, up to findSolution.
InstallLocalPkg ==
  /\ Idle
  /\ \E name \in DOMAIN LocalPkgs :
       \E abs \in {JoinPath(EntryDir, LocalPkgs[name])}, r \in {readSpecAndLock} :
         IF abs # EntryDir /\ abs \notin DOMAIN localSpecs
         THEN ReturnAtOnce("InstallLocalPkg", TRUE)
         ELSE IF r.err \/ name \in DOMAIN r.spec.Deps
         THEN ReturnAtOnce("InstallLocalPkg", TRUE)
         ELSE \E s \in {[Deps |-> MapPut(r.spec.Deps, name, LocalDep(LocalPkgs[name]))]} :
                \E order \in Orders(AllPrefixes(s)) :
                  Begin("InstallLocalPkg", s, NoURL, FALSE, BuildSolverDeps(s, order), r.lf, NoEntry)

\* InstallLocalPkg from the return of findSolution on.
InstallLocalPkgReturn ==
  /\ pc = "done"
  /\ call.op = "InstallLocalPkg"
  /\ IF result.isNil THEN Fail ELSE BuildAndWrite(call.spec, "both")

\* The packages of the lock file with the url and the major version of the
\* package to install: the loop of InstallURLPkg takes the one it meets first.
Unpreferred(lf, url, major) ==
  IF ~lf.exists THEN {NoEntry}
  ELSE IF \A x \in DOMAIN lf.lf.Packages :
            ~(/\ lf.lf.Packages[x].URL = URLText(url)
              /\ Major(NewVersion(lf.lf.Packages[x].Version)) = major)
  THEN {NoEntry}
  ELSE {lf.lf.Packages[o] : o \in {x \in DOMAIN lf.lf.Packages :
          /\ lf.lf.Packages[x].URL = URLText(url)
          /\ Major(NewVersion(lf.lf.Packages[x].Version)) = major}}

\* InstallURLPkg with the url of a package as id and without name, up to
\* findSolution: identifyInstallURL takes the highest version of the url.
InstallURLPkg ==
  /\ Idle
  /\ \E url \in PkgUrls :
       \E found \in {{d.version : d \in {x \in Entries(db) : x.url = url}}},
          r \in {readSpecAndLock} :
         IF found = {} \/ r.err \/ url \in DOMAIN r.spec.Deps
         THEN ReturnAtOnce("InstallURLPkg", TRUE)
         ELSE \E order \in Orders(AllPrefixes(r.spec)) :
                \E maxVersion \in {v \in found : \A w \in found : ~GreaterThan(w, v)} :
                  \E unpreferred \in Unpreferred(r.lf, url, Major(maxVersion)) :
                    Begin("InstallURLPkg", r.spec, url, FALSE,
                          Append(BuildSolverDeps(r.spec, order), NewSolverDep(url, <<>>)),
                          r.lf, unpreferred)

\* InstallURLPkg from the return of findSolution on: the dependency is added
\* with the constraint "^" and the solved version.
InstallURLPkgReturn ==
  /\ pc = "done"
  /\ call.op = "InstallURLPkg"
  /\ IF result.isNil \/ ~versionFor(result, call.url, <<>>).ok THEN Fail
     ELSE BuildAndWrite(
            [Deps |-> MapPut(call.spec.Deps, call.url,
                             RemoteDep(call.url,
                                       Caret(NewVersion(versionFor(result, call.url, <<>>).vStr))))],
            "both")

\* Uninstall of a name, up to findSolution.
Uninstall ==
  /\ Idle
  /\ \E r \in {readSpecAndLock} :
       IF r.err THEN ReturnAtOnce("Uninstall", TRUE)
       ELSE \E name \in DOMAIN r.spec.Deps \cup {"z"} :
              IF name \notin DOMAIN r.spec.Deps THEN ReturnAtOnce("Uninstall", FALSE)
              ELSE \E s \in {[Deps |-> MapDelete(r.spec.Deps, name)]} :
                     \E order \in Orders(AllPrefixes(s)) :
                       Begin("Uninstall", s, NoURL, FALSE, BuildSolverDeps(s, order), r.lf, NoEntry)

\* Uninstall from the return of findSolution on.
UninstallReturn ==
  /\ pc = "done"
  /\ call.op = "Uninstall"
  /\ IF result.isNil THEN Fail ELSE BuildAndWrite(call.spec, "both")

\* Install, up to findSolution; without forceRecompute and with a lock file
\* that has no path package it only downloads.
Install ==
  /\ Idle
  /\ \E forceRecompute \in BOOLEAN, r \in {readSpecAndLock} :
       IF r.err THEN ReturnAtOnce("Install", TRUE)
       ELSE IF ~(\/ forceRecompute
                 \/ ~r.lf.exists
                 \/ \E o \in DOMAIN r.lf.lf.Packages : r.lf.lf.Packages[o].Path # <<>>)
       THEN ReturnAtOnce("Install", FALSE)
       ELSE \E order \in Orders(AllPrefixes(r.spec)) :
              Begin("Install", r.spec, NoURL, forceRecompute, BuildSolverDeps(r.spec, order), r.lf, NoEntry)

\* Install from the return of findSolution on: only the lock file is written.
InstallReturn ==
  /\ pc = "done"
  /\ call.op = "Install"
  /\ IF result.isNil THEN Fail ELSE BuildAndWrite(call.spec, "lock")

\* Update, up to findSolution: the old lock file is not handed on.
Update ==
  /\ Idle
  /\ \E r \in {readSpecAndLock} :
       IF r.err THEN ReturnAtOnce("Update", TRUE)
       ELSE \E order \in Orders(AllPrefixes(r.spec)) :
              Begin("Update", r.spec, NoURL, FALSE, BuildSolverDeps(r.spec, order), NoFile, NoEntry)

\* Update from the return of findSolution on: the dependencies of the spec
\* are those of NewSpecFromLockFile.
UpdateReturn ==
  /\ pc = "done"
  /\ call.op = "Update"
  /\ IF result.isNil THEN Fail ELSE BuildAndWrite(call.spec, "update")

\* CleanPackages reads the files and writes neither.
CleanPackages ==
  /\ Idle
  /\ ReturnAtOnce("CleanPackages", readSpecAndLock.err)

\* Between two operations someone removes a dependency from package.yaml.
EditSpec ==
  /\ call = NoCall
  /\ pc \in {"none", "done"}
  /\ specOnDisk.exists
  /\ lockOnDisk.exists
  /\ \E q \in DOMAIN specOnDisk.Deps : specOnDisk' = SpecFile(MapDelete(specOnDisk.Deps, q))
  /\ UNCHANGED <<solverVars, built, aside, lockOnDisk, localSpecs, call, returned, ops>>

ManagerNext ==
  \/ InstallLocalPkg \/ InstallLocalPkgReturn
  \/ InstallURLPkg \/ InstallURLPkgReturn
  \/ Uninstall \/ UninstallReturn
  \/ Install \/ InstallReturn
  \/ Update \/ UpdateReturn
  \/ CleanPackages
  \/ EditSpec
  \/ SetPreferred \/ Solve \/ SolveStep \/ SolveReturn \/ SolveFail

ManagerSpec == ManagerInit /\ [][ManagerNext]_vars

\* ------------------------------------------- BuildLockFile on a solution
\* The package.yaml files of the projects BuildLockFile is called for: with
\* dependencies on b, or on the package e that no registry has.
BuildSpecs ==
  {SpecFile("b" :> RemoteDep("b", CAny)),
   SpecFile("b" :> RemoteDep("b", Below(4))),
   SpecFile(("b" :> RemoteDep("b", CAny)) @@ ("old" :> RemoteDep("b", Below(3)))),
   SpecFile("e" :> RemoteDep("e", CAny))}

\* A Solver on the registries with four major versions of b that is handed
\* the dependencies of the package.yaml.
BuildInit ==
  /\ localSpecs = <<>>
  /\ specOnDisk \in BuildSpecs
  /\ \E order \in Orders(DOMAIN specOnDisk.Deps) :
       solveDeps = BuildSolverDeps([Deps |-> specOnDisk.Deps], order)
  /\ db = NewSolver(ChainRegistry)
  /\ lockOnDisk = NoFile
  /\ call = NoCall
  /\ returned = NoCall
  /\ ops = 0
  /\ sdkVersion = Nil
  /\ preferred = <<>>
  /\ solveMinSDK = Nil
  /\ printedErrors = {}
  /\ ui = <<>>
  /\ state = EmptyState
  /\ workingIndex = 0
  /\ result = NilSolution
  /\ pc = "new"
  /\ prior = NoPrior
  /\ NoHost
  /\ str = <<>>
  /\ id = NoId
  /\ NoLockFile

\* BuildLockFile is called with the solution.
CallBuildLockFile ==
  /\ pc = "done"
  /\ ~result.isNil
  /\ lfpc = "none"
  /\ \E b \in BuildLockFile([Deps |-> specOnDisk.Deps], result) :
       /\ working' = b.working
       /\ lockfile' = b.lf
       /\ renaming' = b.old2New
       /\ lfpc' = IF b.ok THEN "optimized" ELSE "failed"
  /\ UNCHANGED <<solverVars, aside, project>>

BuildNext == Solve \/ SolveStep \/ SolveReturn \/ SolveFail \/ CallBuildLockFile

BuildSpec == BuildInit /\ [][BuildNext]_vars

\* ======================================================= solver properties
\* The packages of the database, as (url, version).
AllPkgs == UNION {{<<u, db[u][i].version>> : i \in 1..Len(db[u])} : u \in AllUrls}

\* The package of the database with the url and version of p.
PkgOf(p) ==
  LET pkgs == db[p[1]]
  IN  pkgs[CHOOSE i \in 1..Len(pkgs) : pkgs[i].version = p[2]]

\* Some package of S is a version of dep.url that dep.constraints accepts.
Satisfied(dep, S) == \E p \in S : p[1] = dep.url /\ Check(dep.constraints, p[2])

\* S is an assignment that satisfies all constraints: one version per
\* (url, major), every version fit for the SDK the application runs on, and
\* the root dependencies and the dependencies of every package of S
\* satisfied by a package of S.
Consistent(S) ==
  /\ \A p, q \in S : (p[1] = q[1] /\ Major(p[2]) = Major(q[2])) => p = q
  /\ \A p \in S : ~(sdkVersion # Nil /\ PkgOf(p).minSDK # Nil
                      /\ LessThan(sdkVersion, PkgOf(p).minSDK))
  /\ \A p \in S : \A dep \in Range(PkgOf(p).deps) : Satisfied(dep, S)
  /\ \A dep \in Range(solveDeps) : Satisfied(dep, S)

\* The project's own minimal SDK is met by the SDK the application runs on.
ProjectFits ==
  ~(sdkVersion # Nil /\ solveMinSDK # Nil /\ LessThan(sdkVersion, solveMinSDK))

SolutionExists == ProjectFits /\ \E S \in SUBSET AllPkgs : Consistent(S)

\* The packages of the solution Solve returned, as (url, version).
Selected ==
  UNION {{<<u, result.pkgs[u][i]>> : i \in 1..Len(result.pkgs[u])} : u \in AllUrls}

Solved == pc = "done" /\ ~result.isNil

\* The entry at position i of the working queue was given the candidate
\* before its continuation.
TakenAt(i) ==
  db[state.workingQueue[i].url][state.continuations[i].index]

\* Solve came back to entry i of the working queue after it had accepted an
\* earlier candidate for it: the candidates before the taken one that the
\* entry's constraints and the SDK allow.
PassedOverAt(i) ==
  LET dep == state.workingQueue[i]
  IN  {j \in 1..(state.continuations[i].index - 1) :
         /\ Check(dep.constraints, db[dep.url][j].version)
         /\ ~(sdkVersion # Nil /\ db[dep.url][j].minSDK # Nil
                /\ LessThan(sdkVersion, db[dep.url][j].minSDK))}

\* C1: when Solve has returned, it has returned a solution if some assignment
\* of versions satisfies all constraints, and nil only if there is none.
SolveComplete == pc = "done" => (result.isNil <=> ~SolutionExists)

\* Solve returned a solution after it had withdrawn the first candidate it
\* had accepted for the first root dependency.
SolvedAfterBacktrack == Solved /\ solveDeps # <<>> /\ PassedOverAt(1) # {}

\* C2: in a returned solution every root dependency and every dependency of
\* every selected package is satisfied by a selected version of its url.
DepsSatisfied ==
  Solved =>
    /\ \A dep \in Range(solveDeps) : Satisfied(dep, Selected)
    /\ \A p \in Selected : \A dep \in Range(PkgOf(p).deps) : Satisfied(dep, Selected)

\* A solution in which a selected package brings a dependency that not every
\* version of the dependency's url satisfies.
SolvedTransitive ==
  /\ Solved
  /\ \E p \in Selected : \E dep \in Range(PkgOf(p).deps) :
       \E q \in AllPkgs : q[1] = dep.url /\ ~Check(dep.constraints, q[2])

\* C3: the partial solution holds, at every step of a solve, at most one
\* version per (url, major), and so does the solution Solve returns.
OnePerMajor ==
  /\ \A k1, k2 \in DOMAIN state.pkgs :
       (k1[1] = k2[1] /\ Major(state.pkgs[k1]) = Major(state.pkgs[k2])) => k1 = k2
  /\ \A u \in AllUrls : \A i, j \in 1..Len(result.pkgs[u]) :
       Major(result.pkgs[u][i]) = Major(result.pkgs[u][j]) => i = j

\* A solution with two versions of one url, although the database has
\* another version with the major of one of them.
SolvedTwoMajors ==
  /\ Solved
  /\ \E u \in AllUrls :
       /\ Len(result.pkgs[u]) = 2
       /\ \E q \in AllPkgs : q[1] = u /\ <<u, q[2]>> \notin Selected

\* The highest of a set of minimal SDKs (Nil: no requirement).
HighestSDK(S) ==
  IF S \subseteq {Nil} THEN Nil
  ELSE CHOOSE v \in S \ {Nil} : \A w \in S \ {Nil} : ~LessThan(v, w)

\* C8: the minimal SDK of a returned solution is the highest of the project's
\* minimal SDK and the minimal SDKs of the selected packages, also when
\* commits were undone on the way.
EffectiveMinSDK ==
  Solved =>
    result.minSDK = HighestSDK({solveMinSDK} \cup {PkgOf(p).minSDK : p \in Selected})

\* A solution found after Solve had withdrawn, for the first root dependency,
\* a candidate that asks for a higher SDK than the solution does.
SolvedAfterUndoneSDK ==
  /\ Solved
  /\ solveDeps # <<>>
  /\ result.minSDK # Nil
  /\ \E j \in PassedOverAt(1) :
       LET candidate == db[solveDeps[1].url][j]
       IN  candidate.minSDK # Nil /\ LessThan(result.minSDK, candidate.minSDK)

\* C9: with an SDK version given, no package of a returned solution asks for
\* a higher SDK than it, and neither does the solution's minimal SDK.
WithinSDK ==
  (Solved /\ sdkVersion # Nil) =>
    /\ \A p \in Selected :
         PkgOf(p).minSDK = Nil \/ ~LessThan(sdkVersion, PkgOf(p).minSDK)
    /\ result.minSDK = Nil \/ ~LessThan(sdkVersion, result.minSDK)

\* A solution under a given SDK version, with a selected package that asks
\* for an SDK, while a higher version of its url asks for too high a one.
SolvedBelowSDK ==
  /\ Solved
  /\ sdkVersion # Nil
  /\ \E p \in Selected : \E q \in AllPkgs :
       /\ PkgOf(p).minSDK # Nil
       /\ q[1] = p[1]
       /\ LessThan(p[2], q[2])
       /\ PkgOf(q).minSDK # Nil
       /\ LessThan(sdkVersion, PkgOf(q).minSDK)

\* C10: no warning is reported twice in a solve.
WarnedOnce == \A i, j \in 1..Len(ui) : ui[i] = ui[j] => i = j

\* The loop is at an entry whose call of solveDep wants to give a warning
\* that was printed before.
WarningRepeats == AtEntry /\ Outcome.msg # NoWarning /\ Outcome.msg \in printedErrors

\* The packages that p depends on: the versions that a dependency of p accepts.
DependsOn(p) ==
  {q \in AllPkgs : \E dep \in Range(PkgOf(p).deps) :
                     q[1] = dep.url /\ Check(dep.constraints, q[2])}

\* The packages reached from the packages of S in at most n steps.
RECURSIVE Reached(_, _)
Reached(S, n) ==
  IF n = 0 THEN S ELSE Reached(S \cup UNION {DependsOn(p) : p \in S}, n - 1)

\* The packages p depends on, directly or not.
TransitiveDeps(p) == Reached(DependsOn(p), Cardinality(AllPkgs))

\* Some package of the database depends on itself.
Cyclic == \E p \in AllPkgs : p \in TransitiveDeps(p)

\* C4: with an acyclic dependency graph in the database, whatever the
\* preferred list, the loop of Solve ends: Solve returns.
AcyclicTerminates == ~Cyclic ~> pc = "done"

\* Solve has returned after it went back in the working queue, on a
\* database without a cycle.
AcyclicBacktracked ==
  pc = "done" /\ ~Cyclic /\ solveDeps # <<>> /\ workingIndex # 0
    /\ (result.isNil \/ PassedOverAt(1) # {})

\* C5: with a package that depends on itself through others in the database
\* and some assignment that satisfies all constraints, Solve ends and
\* returns a solution.
CyclicSolves == (Cyclic /\ SolutionExists) ~> Solved

\* A solution with a selected package that depends on itself.
SolvedCycle == Solved /\ \E p \in Selected : p \in TransitiveDeps(p)

\* The candidate of position j of the database is one the dependency may be
\* given: its constraints accept the version and the SDK is not too old.
Usable(dep, j) ==
  /\ Check(dep.constraints, db[dep.url][j].version)
  /\ ~(sdkVersion # Nil /\ db[dep.url][j].minSDK # Nil
         /\ LessThan(sdkVersion, db[dep.url][j].minSDK))

\* The packages taken for the entries of the working queue before entry i.
TakenBefore(i) ==
  {<<state.workingQueue[j].url, TakenAt(j).version>> : j \in 1..(i - 1)}

\* Some assignment that satisfies all constraints holds the packages of P.
Feasible(P) == \E S \in SUBSET AllPkgs : P \subseteq S /\ Consistent(S)

\* The selected versions that the dependency's constraints accept.
SelectedFor(dep) == {p \in Selected : p[1] = dep.url /\ Check(dep.constraints, p[2])}

\* The dependencies of a returned solution: the root dependencies and those
\* of the selected packages.
SolutionDeps == Range(solveDeps) \cup UNION {Range(PkgOf(p).deps) : p \in Selected}

\* C6 as stated: without a preferred list, a returned solution gives every
\* dependency the highest version its constraints (and the SDK) allow, but
\* for the versions whose (url, major) the solution gives to another version.
HighestCompatible ==
  (Solved /\ preferred = <<>>) =>
    \A dep \in SolutionDeps : \A j \in 1..Len(db[dep.url]) :
      LET q == db[dep.url][j].version
      IN  (/\ Usable(dep, j)
           /\ ~\E p \in Selected : p[1] = dep.url /\ Major(p[2]) = Major(q) /\ p[2] # q)
            => \E p \in SelectedFor(dep) : ~LessThan(p[2], q)

\* C6 as amended: without a preferred list, every entry of the working queue
\* of a returned solution took the highest version that its constraints and
\* the SDK allow and that some assignment satisfying all constraints holds
\* together with the versions taken for the entries before it.
HighestFeasible ==
  (Solved /\ preferred = <<>>) =>
    \A i \in 1..Len(state.workingQueue) :
      LET dep == state.workingQueue[i]
      IN  \A j \in 1..Len(db[dep.url]) :
            (Usable(dep, j) /\ Feasible(TakenBefore(i) \cup {<<dep.url, db[dep.url][j].version>>}))
              => ~LessThan(TakenAt(i).version, db[dep.url][j].version)

\* A solution without a preferred list in which an entry of the working queue
\* took a version although a version of a higher major was allowed to it.
SolvedBelowHighest ==
  /\ Solved
  /\ preferred = <<>>
  /\ \E i \in 1..Len(state.workingQueue) : \E j \in PassedOverAt(i) :
       Major(TakenAt(i).version) < Major(db[state.workingQueue[i].url][j].version)

\* The preferred package, as (url, version).
PreferredPkg == <<preferred[1].URL, preferred[1].Version>>

\* The preferred version satisfies every constraint on its url, fits the SDK,
\* and taking it cannot violate another dependency's constraint: it has no
\* dependencies, and some assignment satisfying all constraints holds it.
PreferredFits ==
  /\ preferred # <<>>
  /\ PreferredPkg \in AllPkgs
  /\ \A dep \in Range(solveDeps) \cup UNION {Range(PkgOf(p).deps) : p \in AllPkgs} :
       dep.url = PreferredPkg[1] => Check(dep.constraints, PreferredPkg[2])
  /\ PkgOf(PreferredPkg).minSDK = Nil
  /\ PkgOf(PreferredPkg).deps = <<>>
  /\ Feasible({PreferredPkg})

VersionSets(sol) ==
  [isNil |-> sol.isNil, pkgs |-> [u \in AllUrls |-> Range(sol.pkgs[u])], minSDK |-> sol.minSDK]

\* C11: the Solve of a second solver, built from the same registries and given
\* the same preferred list, minSDK and dependencies, returns the same versions
\* per url and the same minimal SDK as the first (or nil as the first).
SameSolution ==
  (pc = "done" /\ prior.solved) => VersionSets(result) = VersionSets(prior.solution)

\* Both solvers have returned a solution with two versions of a url, which
\* the two iterations over the partial solution met in different orders.
SolvedTwiceOtherOrder ==
  /\ pc = "done"
  /\ prior.solved
  /\ ~result.isNil
  /\ result # prior.solution

\* C19: what toValidPkgID returns starts with a letter or "_", and each
\* of its other runes is a letter, a digit or one of "_", "-", ".", "/".
ValidPkgID ==
  id.returned =>
    /\ id.v # <<>> => id.v[1] \in Lower \cup Upper \cup {"_"}
    /\ \A i \in 2..Len(id.v) : id.v[i] \in Lower \cup Upper \cup Digit \cup {"_", "-", ".", "/"}

\* What a package of a lock file is, apart from its prefixes.
Payload(entry) == <<entry.URL, entry.Version, entry.Path>>

\* The ids under which lf holds the package that is entry.
IDsOf(lf, entry) == {n \in DOMAIN lf.Packages : Payload(lf.Packages[n]) = Payload(entry)}

\* C14: optimizePkgIDs leaves a lock file with as many packages as before,
\* each of the packages it was given being held under exactly one id.
EntriesKept ==
  lfpc = "optimized" =>
    /\ Cardinality(DOMAIN lockfile.Packages) = Cardinality(DOMAIN working.Packages)
    /\ \A o \in DOMAIN working.Packages :
         Cardinality(IDsOf(lockfile, working.Packages[o])) = 1

\* C17: when optimizePkgIDs returns and a referenced id has no new id, the
\* lock file is the one it was given, with the working ids.
AbortKeepsWorking ==
  (lfpc = "optimized" /\ \E r \in Referenced(working) : r \notin DOMAIN renaming)
    => lockfile = working

\* optimizePkgIDs has returned without renaming because a package that a
\* prefix of a package refers to got no new id, while other packages did.
AbortedOnUnnamed ==
  /\ lfpc = "optimized"
  /\ lockfile = working
  /\ DOMAIN renaming # {}
  /\ \E o \in DOMAIN working.Packages : \E q \in DOMAIN working.Packages[o].Prefixes :
       /\ working.Packages[o].Prefixes[q] \in DOMAIN working.Packages
       /\ working.Packages[o].Prefixes[q] \notin DOMAIN renaming

\* The remote packages of lf that share their url with another package.
SharingURL(lf) ==
  {o \in DOMAIN lf.Packages :
     /\ lf.Packages[o].Path = <<>>
     /\ \E x \in DOMAIN lf.Packages \ {o} : lf.Packages[x].URL = lf.Packages[o].URL}

\* The least number of last segments that tells the package o of lf from the
\* packages with another url or path, or the number of its segments.
RECURSIVE MinimalRound(_, _, _)
MinimalRound(lf, o, i) ==
  LET segments == buildIDSegments(lf.Packages[o])
      distinct == {x \in DOMAIN lf.Packages :
                     Payload(lf.Packages[x])[1] # Payload(lf.Packages[o])[1]
                       \/ Payload(lf.Packages[x])[3] # Payload(lf.Packages[o])[3]}
  IN  IF i >= Len(segments)
         \/ \A x \in distinct : Candidate(buildIDSegments(lf.Packages[x]), i) # Candidate(segments, i)
      THEN i
      ELSE MinimalRound(lf, o, i + 1)

\* C18: a remote package that shares its url with another one is held, after
\* optimizePkgIDs, under the minimal unique suffix of the url followed by "-"
\* and its version.
VersionSuffixed ==
  lfpc = "optimized" =>
    \A o \in SharingURL(working) :
      IDsOf(lockfile, working.Packages[o]) =
        {Candidate(buildIDSegments(working.Packages[o]), MinimalRound(working, o, 1))
           \o <<"-">> \o working.Packages[o].Version}































\* ================================================= lock files of the manager
\* The ids the prefixes of lf and of its packages refer to.
PrefixTargets(lf) ==
  {lf.Prefixes[q] : q \in DOMAIN lf.Prefixes}
    \cup UNION {{lf.Packages[o].Prefixes[q] : q \in DOMAIN lf.Packages[o].Prefixes} :
                  o \in DOMAIN lf.Packages}

\* C12: in the package.lock an operation of the manager has written, every
\* prefix of the lock file and of each of its packages refers to an id that
\* packages holds.
PrefixesResolve ==
  lockOnDisk.exists => PrefixTargets(lockOnDisk.lf) \subseteq DOMAIN lockOnDisk.lf.Packages

\* ------------------------------------------------ lock files of BuildLockFile
\* The id under which optimizePkgIDs stores the package with the working id
\* o: its new id (empty if it got none), or o if optimizePkgIDs returned
\* without renaming.
ReceivedID(o) ==
  IF Referenced(working) \subseteq DOMAIN renaming THEN MapGet(renaming, o, <<>>) ELSE o

\* C13: in the lock file BuildLockFile returns, no two of the packages it
\* has built for the solution and for the path dependencies are stored
\* under the same id.
IDsUnique ==
  lfpc = "optimized" =>
    \A o, x \in DOMAIN working.Packages : o # x => ReceivedID(o) # ReceivedID(x)

\* ------------------------------------------- the package.lock of the manager
\* The ids of the packages of lf that come from a url.
RemoteIDs(lf) == {o \in DOMAIN lf.Packages : lf.Packages[o].URL # <<>>}

\* C15: in the package.lock an operation of the manager has written, no two
\* packages have the same url and the same major version.
LockedOncePerMajor ==
  lockOnDisk.exists =>
    \A o, x \in RemoteIDs(lockOnDisk.lf) :
      (/\ lockOnDisk.lf.Packages[o].URL = lockOnDisk.lf.Packages[x].URL
       /\ Major(NewVersion(lockOnDisk.lf.Packages[o].Version))
            = Major(NewVersion(lockOnDisk.lf.Packages[x].Version)))
        => o = x

\* A package.lock has been written that holds two major versions of a url.
TwoMajorsLocked ==
  /\ lockOnDisk.exists
  /\ returned # NoCall /\ ~returned.err
  /\ \E o, x \in RemoteIDs(lockOnDisk.lf) :
       /\ lockOnDisk.lf.Packages[o].URL = lockOnDisk.lf.Packages[x].URL
       /\ Major(NewVersion(lockOnDisk.lf.Packages[o].Version))
            # Major(NewVersion(lockOnDisk.lf.Packages[x].Version))

\* The dependencies on urls of the package a lock file holds as entry: those
\* of the package.yaml of the downloaded package, or of the package.yaml in
\* the directory of a path package.
LockedDeps(entry) ==
  IF entry.URL # <<>>
  THEN {PkgSpec(URLOf(entry.URL), NewVersion(entry.Version)).Deps[q] :
          q \in DOMAIN PkgSpec(URLOf(entry.URL), NewVersion(entry.Version)).Deps}
  ELSE IF SpecAt(FullPath(entry.Path)).exists
  THEN {SpecAt(FullPath(entry.Path)).Deps[q] :
          q \in RemotePrefixes(SpecAt(FullPath(entry.Path)).Deps)}
  ELSE {}

\* lf holds a package of the url of dep in a version the constraint accepts.
HasTarget(lf, dep) ==
  \E x \in RemoteIDs(lf) :
    /\ lf.Packages[x].URL = URLText(dep.URL)
    /\ Check(dep.Version, NewVersion(lf.Packages[x].Version))

\* C16: the package.lock an operation of the manager has written holds, for
\* every dependency on a url of each of its packages, a package of that url
\* in a version that satisfies the constraint of the dependency.
DepsLocked ==
  lockOnDisk.exists =>
    \A o \in DOMAIN lockOnDisk.lf.Packages :
      \A dep \in LockedDeps(lockOnDisk.lf.Packages[o]) : HasTarget(lockOnDisk.lf, dep)

\* A package.lock has been written with a package that depends on a url
\* under a constraint that not every version of the registries satisfies.
ConstrainedDepLocked ==
  /\ lockOnDisk.exists
  /\ returned # NoCall /\ ~returned.err
  /\ \E o \in DOMAIN lockOnDisk.lf.Packages :
       \E dep \in LockedDeps(lockOnDisk.lf.Packages[o]) :
         /\ HasTarget(lockOnDisk.lf, dep)
         /\ \E d \in Entries(db) : d.url = dep.URL /\ ~Check(dep.Version, d.version)

\* package.yaml and package.lock exist and the lock file has a prefix that
\* is no dependency of package.yaml.
LockAheadOfSpec ==
  /\ lockOnDisk.exists
  /\ specOnDisk.exists
  /\ \E q \in DOMAIN lockOnDisk.lf.Prefixes : q \notin DOMAIN specOnDisk.Deps

\* C20: an operation of the manager that is called while package.lock has a
\* prefix that package.yaml lacks returns an error at once and leaves both
\* files as they are.
RefusesLockAheadOfSpec ==
  [][(LockAheadOfSpec /\ ops' = ops + 1) =>
       /\ call' = NoCall
       /\ returned' # NoCall /\ returned'.err
       /\ specOnDisk' = specOnDisk
       /\ lockOnDisk' = lockOnDisk]_vars

\* CleanPackages has returned an error on a package.lock with a prefix that
\* package.yaml lacks.
RefusedLockAheadOfSpec ==
  /\ LockAheadOfSpec
  /\ returned # NoCall /\ returned.op = "CleanPackages" /\ returned.err

\* C21: an operation that ends with WriteToFile of a lock file whose text
\* is the text package.lock holds does not write the file.
SameContentNotWritten ==
  [][(/\ lockOnDisk.exists
      /\ call # NoCall /\ call' = NoCall /\ ~returned'.err
      /\ Marshal(lockfile') = Marshal(lockOnDisk.lf))
       => lockOnDisk'.writes = lockOnDisk.writes /\ lockOnDisk'.lf = lockOnDisk.lf]_vars

\* An operation has built the lock file that package.lock held and has left
\* the file as the operation before had written it.
LeftAsWritten ==
  /\ lockOnDisk.exists
  /\ lockOnDisk.writes = 1
  /\ lockOnDisk.kept = 1
  /\ returned # NoCall /\ ~returned.err
  /\ lockfile = lockOnDisk.lf

\* The step is the return without error of an Install without
\* forceRecompute that was called right after an operation of ops had
\* returned without error.
InstallReturnsAfter(ops_) ==
  /\ returned # NoCall /\ returned.op \in ops_ /\ ~returned.err
  /\ returned' # NoCall /\ returned'.op = "Install" /\ ~returned'.err
  /\ call = NoCall \/ (call.op = "Install" /\ ~call.force)
  /\ call' = NoCall

\* C22: the Install without forceRecompute that follows an operation that
\* has installed a package leaves package.lock with the text it had.
InstallAgainSameLock ==
  [][InstallReturnsAfter({"InstallURLPkg", "InstallLocalPkg"}) =>
       lockOnDisk'.exists /\ Marshal(lockOnDisk'.lf) = Marshal(lockOnDisk.lf)]_vars

\* C23: no step of an Install, from its call to its return, changes
\* package.yaml.
InstallKeepsSpec ==
  [][(\/ call # NoCall /\ call.op = "Install"
      \/ call' # NoCall /\ call'.op = "Install"
      \/ call = NoCall /\ call' = NoCall /\ ops' = ops + 1 /\ returned'.op = "Install")
       => specOnDisk' = specOnDisk]_vars

\* The first operation was an Install that has solved and has written
\* package.lock, in a project without package.yaml.
InstallSolvedAndWrote ==
  /\ ops = 1
  /\ returned # NoCall /\ returned.op = "Install" /\ ~returned.err
  /\ lockOnDisk.exists /\ lockOnDisk.writes = 1
  /\ ~specOnDisk.exists

\* =========================================== the sync lock of the registries
(***************************************************************************)
(* Part 4: the registries that are git clones in the registry cache.  Each *)
(* process holds one registry (newGitRegistry, NewSSHGitRegistry) and      *)
(* calls Load with sync = true or ClearCache on it.  gitRegistry wraps its *)
(* work on the clone in withFileLock, which takes the file mutex           *)
(* .tpgk_sync.lock next to the clone in a goroutine of its own and waits   *)
(* for it under a context that is done after three minutes.  The steps of  *)
(* the goroutine, of the waiting caller and of the context interleave.     *)
(***************************************************************************)

\* The processes that work on the one registry cache.
MaxProcs == 2

Procs == 1..MaxProcs

\* options.registryCachePaths of the Cache, each a list of path segments.
registryCachePaths == <<<<"cache">>>>

\* The urls of the registries, split at "/": two below the same directory,
\* one below another.  ToURIPath leaves segments like these as they are.
RegistryUrls ==
  {<<"github.com", "toitware", "registry">>,
   <<"github.com", "toitware", "test-registry">>,
   <<"gitlab.com", "acme", "registry">>}

\* Cache.PreferredRegistryPath
PreferredRegistryPath(url) == registryCachePaths[1] \o url

\* Cache.FindRegistry over the directories cl of the cache: "" if there is
\* no clone of the url.
FindRegistry(cl, url) ==
  IF MapGet(cl, PreferredRegistryPath(url), FALSE) THEN PreferredRegistryPath(url) ELSE <<>>

\* filepath.Dir
Dir(p) == SubSeq(p, 1, Len(p) - 1)

\* One lock file for the whole cache.
LockPOfCache(p) == registryCachePaths[1] \o <<".tpgk_sync.lock">>

\* lockP of withFileLock for the clone at p.
LockP(p) == Dir(p) \o <<".tpgk_sync.lock">>

\* p of withFileLock, of ClearCache and of sshGitRegistry.Load: gr.path, or
\* the preferred path if the registry has none yet.
ClonePath(gr) == IF gr.path = <<>> THEN PreferredRegistryPath(gr.url) ELSE gr.path

\* A select that takes default whatever the context.
GoroutineTakesDefault(done) == "default"

\* The select of the goroutine that holds the mutex: ctx.Done() if the
\* context is done, default if not.
GoroutineSelect(done) == IF done THEN "Done" ELSE "default"

\* The select of the caller: the cases that are ready; Go takes any of them.
CallerSelect(unlocked, done) ==
  {c \in {"unlocked"} : unlocked} \cup {c \in {"Done"} : done}

\* What the callback does to the clone at p: Load pulls if os.Stat finds the
\* directory and clones if not, ClearCache removes it.
CallbackOf(op, cl, p) ==
  IF op = "ClearCache" THEN "RemoveAll"
  ELSE IF MapGet(cl, p, FALSE) THEN "Pull" ELSE "Clone"

\* What sshGitRegistry.Load does: it clones if gr.path is "", pulls if not.
SSHLoadOf(gr) == IF gr.path = <<>> THEN "Clone" ELSE "Pull"

\* The directories of the cache after the work on the clone at p.
Cloned(cl, p, doing, ok) ==
  CASE doing = "RemoveAll"    -> (p :> FALSE) @@ cl
    [] doing = "Clone" /\ ok  -> (p :> TRUE) @@ cl
    [] OTHER                  -> cl

\* What the processes are given: a git registry with Load or ClearCache, or
\* an ssh git registry with Load.
SyncTasks ==
  [impl : {"git"}, url : RegistryUrls, op : {"Load", "ClearCache"}]
    \cup [impl : {"ssh"}, url : {<<"github.com", "toitware", "registry">>}, op : {"Load"}]

\* The process that has built its registry on the cache cl and not yet
\* started: newGitRegistry sets gr.path to what FindRegistry finds.
NewProcess(task, cl) ==
  [impl |-> task.impl, url |-> task.url, op |-> task.op,
   path |-> FindRegistry(cl, task.url),
   p |-> <<>>, lockP |-> <<>>,
   main |-> "start", goroutine |-> "none",
   done |-> FALSE, unlocked |-> FALSE,
   doing |-> "nothing", err |-> "none", late |-> FALSE]

\* Every process has a registry; each clone is there or not.
SyncInit ==
  /\ SolverIdle
  /\ prior = NoPrior /\ str = <<>> /\ id = NoId
  /\ NoLockFile
  /\ NoProject
  /\ clones \in [{PreferredRegistryPath(u) : u \in RegistryUrls} -> BOOLEAN]
  /\ \E tasks \in [Procs -> SyncTasks] :
       proc = [i \in Procs |-> NewProcess(tasks[i], clones)]
  /\ flock = <<>>
  /\ dl = <<>>
  /\ disk = <<>>
  /\ uri = NoUri /\ visiting = NoVisit

\* What the work on the registry cache leaves alone.
besideSync == <<solverVars, built, prior, str, id, project, dl, disk, uri, visiting>>

\* The holder of the file mutex at lockP, 0 if it is free.
Holder(lockP) == MapGet(flock, lockP, 0)

\* withFileLock up to its go statement, as Load with sync and ClearCache
\* with a gr.path of gitRegistry call it: the context with its timeout is
\* made, the goroutine starts, the caller goes on to its select.
withFileLock(i) ==
  /\ proc[i].main = "start"
  /\ \/ proc[i].op = "Load" /\ proc[i].impl = "git"
     \/ proc[i].op = "ClearCache" /\ proc[i].path # <<>>
  /\ proc' = [proc EXCEPT ![i].p = ClonePath(proc[i]),
                          ![i].lockP = LockP(ClonePath(proc[i])),
                          ![i].main = "select",
                          ![i].goroutine = "Lock"]
  /\ UNCHANGED <<flock, clones, besideSync>>

\* ClearCache of a registry without gr.path returns nil.
ClearCache(i) ==
  /\ proc[i].main = "start"
  /\ proc[i].op = "ClearCache" /\ proc[i].path = <<>>
  /\ proc' = [proc EXCEPT ![i].main = "returned", ![i].err = "nil"]
  /\ UNCHANGED <<flock, clones, besideSync>>

\* m.Lock() of the goroutine returns once the mutex is free.
Lock(i) ==
  /\ proc[i].goroutine = "Lock"
  /\ Holder(proc[i].lockP) = 0
  /\ flock' = (proc[i].lockP :> i) @@ flock
  /\ proc' = [proc EXCEPT ![i].goroutine = "select"]
  /\ UNCHANGED <<clones, besideSync>>

\* The select of the goroutine: m.Unlock() if the context is done, else it
\* goes on to close(unlocked).
Select(i) ==
  /\ proc[i].goroutine = "select"
  /\ IF GoroutineSelect(proc[i].done) = "Done"
       THEN /\ flock' = (proc[i].lockP :> 0) @@ flock
            /\ proc' = [proc EXCEPT ![i].goroutine = "ended"]
       ELSE /\ proc' = [proc EXCEPT ![i].goroutine = "close"]
            /\ UNCHANGED flock
  /\ UNCHANGED <<clones, besideSync>>

\* close(unlocked) of the goroutine.
Close(i) ==
  /\ proc[i].goroutine = "close"
  /\ proc' = [proc EXCEPT ![i].goroutine = "ended", ![i].unlocked = TRUE]
  /\ UNCHANGED <<flock, clones, besideSync>>

\* The three minutes of the context pass while the caller waits; late
\* records that m.Lock() had not returned by then.
Timeout(i) ==
  /\ proc[i].main = "select"
  /\ ~proc[i].done
  /\ proc' = [proc EXCEPT ![i].done = TRUE,
                          ![i].late = proc[i].goroutine = "Lock"]
  /\ UNCHANGED <<flock, clones, besideSync>>

\* The select of the caller takes <-unlocked: f(p) starts its work.
Unlocked(i) ==
  /\ proc[i].main = "select"
  /\ "unlocked" \in CallerSelect(proc[i].unlocked, proc[i].done)
  /\ proc' = [proc EXCEPT ![i].main = "f",
                          ![i].doing = CallbackOf(proc[i].op, clones, proc[i].p)]
  /\ UNCHANGED <<flock, clones, besideSync>>

\* The select of the caller takes <-ctx.Done(): withFileLock returns
\* "unable to acquire sync lock".
Done(i) ==
  /\ proc[i].main = "select"
  /\ "Done" \in CallerSelect(proc[i].unlocked, proc[i].done)
  /\ proc' = [proc EXCEPT ![i].main = "returned", ![i].err = "LockTimeout"]
  /\ UNCHANGED <<flock, clones, besideSync>>

\* sshGitRegistry.Load with sync starts to clone or to pull.
SSHLoad(i) ==
  /\ proc[i].main = "start"
  /\ proc[i].op = "Load" /\ proc[i].impl = "ssh"
  /\ proc' = [proc EXCEPT ![i].p = ClonePath(proc[i]),
                          ![i].main = "f",
                          ![i].doing = SSHLoadOf(proc[i])]
  /\ UNCHANGED <<flock, clones, besideSync>>

\* The work on the clone ends, with or without an error of git; under
\* withFileLock the deferred m.Unlock() and cancel() run.
Finish(i) ==
  /\ proc[i].main = "f"
  /\ \E ok \in IF proc[i].doing = "RemoveAll" THEN {TRUE} ELSE BOOLEAN :
       /\ clones' = Cloned(clones, proc[i].p, proc[i].doing, ok)
       /\ proc' = [proc EXCEPT ![i].main = "returned",
                               ![i].err = IF ok THEN "nil" ELSE "git",
                               ![i].doing = "nothing",
                               ![i].done = proc[i].lockP # <<>> \/ @]
  /\ flock' = IF proc[i].lockP = <<>> THEN flock ELSE (proc[i].lockP :> 0) @@ flock
  /\ UNCHANGED besideSync

\* The steps a process takes by itself.
Step(i) ==
  \/ withFileLock(i) \/ ClearCache(i) \/ Lock(i) \/ Select(i) \/ Close(i)
  \/ Unlocked(i) \/ Done(i) \/ SSHLoad(i) \/ Finish(i)

SyncNext ==
  \/ \E i \in Procs : withFileLock(i)
  \/ \E i \in Procs : ClearCache(i)
  \/ \E i \in Procs : Lock(i)
  \/ \E i \in Procs : Select(i)
  \/ \E i \in Procs : Close(i)
  \/ \E i \in Procs : Timeout(i)
  \/ \E i \in Procs : Unlocked(i)
  \/ \E i \in Procs : Done(i)
  \/ \E i \in Procs : SSHLoad(i)
  \/ \E i \in Procs : Finish(i)

SyncSpec == SyncInit /\ [][SyncNext]_vars

\* Every process goes on as long as it can; only the timeout need not come.
SyncFairSpec == SyncSpec /\ \A i \in Procs : WF_vars(Step(i))

\* ------------------------------------------------- properties of the sync lock
\* The process works on a clone: a clone, a pull or the removal of the
\* directory is under way.
AtWork(i) == proc[i].main = "f"

\* C24: no two processes clone, pull or remove registry clones under the
\* same .tpgk_sync.lock at the same time, whichever registry implementation
\* they use.
ExclusiveUnderLock ==
  \A i, j \in Procs :
    (i # j /\ AtWork(i) /\ AtWork(j)) => LockP(proc[i].p) # LockP(proc[j].p)

\* C25: when the three minutes pass before m.Lock() has returned, the
\* callback is never run and withFileLock returns the LockTimeout error.
GivesUpAfterTimeout ==
  \A i \in Procs :
    proc[i].late =>
      /\ ~AtWork(i)
      /\ proc[i].main = "returned" => proc[i].err = "LockTimeout"

\* A process gave up after its timeout; its goroutine got the mutex later
\* and released it.
GaveUpAfterTimeout ==
  \E i \in Procs :
    /\ proc[i].late
    /\ proc[i].main = "returned" /\ proc[i].err = "LockTimeout"
    /\ proc[i].goroutine = "ended" /\ Holder(proc[i].lockP) # i

\* The process holds the file mutex of its withFileLock.
Holds(i) == proc[i].lockP # <<>> /\ Holder(proc[i].lockP) = i

\* C26: whenever a process has taken the file lock in withFileLock, before
\* or after its timeout and however goroutine, caller and timeout
\* interleave, it releases the lock again.
LockAlwaysReleased == \A i \in Procs : Holds(i) ~> ~Holds(i)

\* The goroutine of process i waits in m.Lock() for the mutex that process j
\* holds.
WaitsOn(i, j) ==
  /\ i # j
  /\ proc[i].goroutine = "Lock"
  /\ Holder(proc[i].lockP) = j

\* C27: a process waits for the lock of another one only if the clones of
\* their registries lie in the same directory; registries in different
\* directories never wait for each other.
WaitsInSameDirOnly ==
  \A i, j \in Procs : WaitsOn(i, j) => Dir(proc[i].p) = Dir(proc[j].p)

\* Two registries in different directories are synced at the same time.
SyncedInParallel ==
  \E i, j \in Procs :
    /\ proc[i].op = "Load" /\ proc[j].op = "Load"
    /\ Dir(proc[i].p) # Dir(proc[j].p)
    /\ AtWork(i) /\ AtWork(j)
    /\ Holds(i) /\ Holds(j)

\* C27 as the spec words it: a sync never waits for the lock that the sync
\* of a different registry holds.
NeverWaitsOnOtherRegistry ==
  \A i, j \in Procs :
    (WaitsOn(i, j) /\ proc[i].op = "Load" /\ proc[j].op = "Load") => proc[i].url = proc[j].url

\* ============================================== the downloads of packages
(***************************************************************************)
(* Part 5: ProjectPkgManager.download and DownloadGit of git_pkg.go, as    *)
(* the processes of the host call them on the same directories, and        *)
(* CleanPackages.  A directory is absent, partial (made, or with a part of *)
(* the package's tree in it) or complete; every state a run passes through *)
(* is one that a reader of the directories can see.                        *)
(***************************************************************************)

\* The calls of download and CleanPackages that a process makes.
MaxDownloads == 2

\* The package urls, split at "/": a repository that is the package, a
\* package at the path sub of a repository, and one at a path that the
\* repository does not have.
GitUrls ==
  {<<"github.com", "toitware", "morse">>,
   <<"github.com", "toitware", "repo.git", "sub">>,
   <<"github.com", "toitware", "repo.git", "none">>}

\* The one version the packages have.
GitVersion == "1.0.0"

\* The segments that end in ".git".
GitSegments == {"repo.git"}

\* The paths that the repositories have.
InRepository == {<<"sub">>}

\* filepath.Join(rootPath, ProjectPackagesPath) of the one project.
ProjectPackagesPath == <<"project", ".packages">>

\* The options of the Cache: the default, an install path that is one of
\* the package cache paths, and one that is not.
CacheOptions ==
  [pkgCachePaths : {<<<<"home", "tpkg">>>>},
   installPkgPath : {Nil, <<"home", "tpkg">>, <<"opt", "tpkg">>}]

\* Cache.PkgInstallPath
PkgInstallPath(options) ==
  IF options.installPkgPath # Nil THEN options.installPkgPath ELSE ProjectPackagesPath

\* URLVersionToRelPath; ToURIPath leaves segments like these as they are.
URLVersionToRelPath(url, version) == url \o <<version>>

\* Cache.PreferredPkgPath
PreferredPkgPath(options, url, version) ==
  PkgInstallPath(options) \o URLVersionToRelPath(url, version)

\* os.Stat finds a directory at p.
Exists(d, p) == MapGet(d, p, "absent") # "absent"

\* Cache.find: the first of the paths below which rel is a directory, "" if
\* there is none.
RECURSIVE find(_, _, _)
find(d, rel, paths) ==
  IF paths = <<>> THEN <<>>
  ELSE IF Exists(d, Head(paths) \o rel) THEN Head(paths) \o rel
  ELSE find(d, rel, Tail(paths))

\* The paths FindPkg searches: the .packages of the project, then the
\* package cache paths.
PkgSearchPaths(options) == <<ProjectPackagesPath>> \o options.pkgCachePaths

\* Cache.FindPkg
FindPkg(options, d, url, version) ==
  find(d, URLVersionToRelPath(url, version), PkgSearchPaths(options))

\* decomposePkgURL: the url is cut behind its last ".git/".
decomposePkgURL(url) ==
  LET cuts == {k \in 1..(Len(url) - 1) : url[k] \in GitSegments}
      last == CHOOSE k \in cuts : \A other \in cuts : other <= k
  IN  IF cuts = {} THEN [cloneURL |-> url, path |-> <<>>]
      ELSE [cloneURL |-> SubSeq(url, 1, last), path |-> SubSeq(url, last + 1, Len(url))]

\* ioutil.TempDir(baseDir, "partial-toit-checkout") of process i.
TempDir(baseDir, i) == baseDir \o <<"partial-toit-checkout", i>>

\* checkoutDir of DownloadGit: o.Directory, or a directory next to it for a
\* package at a path of its repository.
CheckoutDir(directory, url, i) ==
  IF decomposePkgURL(url).path = <<>> THEN directory ELSE TempDir(Dir(directory), i)

\* os.MkdirAll(p): it makes the directory if there is none.
MkdirAll(d, p) == IF Exists(d, p) THEN d ELSE (p :> "partial") @@ d

\* Nothing is removed.
RemoveNothing(d, p) == d

\* os.RemoveAll(p)
RemoveAll(d, p) == (p :> "absent") @@ d

\* os.Rename(nestedPath, o.Directory): it fails when there is a directory
\* at the new path.
RenameFails(d, directory) == Exists(d, directory)

\* The directories after os.Rename and the deferred os.RemoveAll(checkoutDir).
Renamed(d, checkoutDir, directory) ==
  RemoveAll(IF RenameFails(d, directory) THEN d ELSE (directory :> "complete") @@ d,
            checkoutDir)

\* strings.HasPrefix, of paths split at the separator.
HasPrefix(p, prefix) ==
  Len(p) >= Len(prefix) /\ SubSeq(p, 1, Len(prefix)) = prefix

\* readmePath of CreatePackagesCacheDir.
ReadmePath(options) == PkgInstallPath(options) \o <<"README.md">>

\* Cache.CreatePackagesCacheDir: if os.Stat finds no install directory it
\* makes it and writes the README.
CreatePackagesCacheDir(options, d) ==
  IF \E p \in DOMAIN d : Exists(d, p) /\ HasPrefix(p, PkgInstallPath(options))
    THEN d
    ELSE (ReadmePath(options) :> "complete") @@ d

\* No call of a process.
NoDownload == [pc |-> "idle", url |-> <<>>, directory |-> <<>>, checkoutDir |-> <<>>,
               wrote |-> FALSE]

\* The processes share the options; nothing is downloaded yet.
DownloadInit ==
  /\ SolverIdle
  /\ prior = NoPrior /\ str = <<>> /\ id = NoId
  /\ NoLockFile
  /\ NoProject
  /\ proc = <<>> /\ flock = <<>> /\ clones = <<>>
  /\ \E options \in CacheOptions :
       dl = [i \in Procs |-> [options |-> options, call |-> NoDownload, n |-> 0,
                              returned |-> "none", locked |-> {}]]
  /\ disk = <<>>
  /\ uri = NoUri /\ visiting = NoVisit

\* What the downloads leave alone.
besideDownload == <<solverVars, built, prior, str, id, project, proc, flock, clones, uri, visiting>>

\* download of a package that FindPkg finds returns nil.
downloadFound(i) ==
  /\ dl[i].call.pc = "idle" /\ dl[i].n < MaxDownloads
  /\ \E url \in GitUrls :
       /\ FindPkg(dl[i].options, disk, url, GitVersion) # <<>>
       /\ dl' = [dl EXCEPT ![i].n = @ + 1, ![i].returned = "nil"]
  /\ UNCHANGED <<disk, besideDownload>>

\* download of a package that FindPkg does not find makes the install
\* directory and calls DownloadGit with the preferred path.
download(i) ==
  /\ dl[i].call.pc = "idle" /\ dl[i].n < MaxDownloads
  /\ \E url \in GitUrls :
       /\ FindPkg(dl[i].options, disk, url, GitVersion) = <<>>
       /\ dl' = [dl EXCEPT ![i].n = @ + 1,
                           ![i].returned = "none",
                           ![i].call = [pc |-> "DownloadGit", url |-> url,
                                        directory |-> PreferredPkgPath(dl[i].options, url, GitVersion),
                                        checkoutDir |-> <<>>, wrote |-> FALSE]]
  /\ disk' = CreatePackagesCacheDir(dl[i].options, disk)
  /\ UNCHANGED besideDownload

\* DownloadGit up to git.Clone: os.Stat of o.Directory (the directory is
\* removed only when there is none), the temporary directory for a package
\* at a path, os.MkdirAll(checkoutDir).
DownloadGit(i) ==
  /\ dl[i].call.pc = "DownloadGit"
  /\ \E checkoutDir \in {CheckoutDir(dl[i].call.directory, dl[i].call.url, i)} :
       /\ disk' = MkdirAll(disk, checkoutDir)
       /\ dl' = [dl EXCEPT ![i].call.pc = "Clone",
                           ![i].call.checkoutDir = checkoutDir,
                           ![i].call.wrote = checkoutDir = dl[i].call.directory
                                               /\ ~Exists(disk, checkoutDir)]
  /\ UNCHANGED besideDownload

\* git.Clone into checkoutDir returns.  With an error DownloadGit returns
\* it after the deferred os.RemoveAll(checkoutDir); without one it returns
\* the hash when checkoutDir is o.Directory and goes on to the move if not.
Clone(i) ==
  /\ dl[i].call.pc = "Clone"
  /\ \E ok \in BOOLEAN :
       IF ~ok
         THEN /\ disk' = RemoveAll(disk, dl[i].call.checkoutDir)
              /\ dl' = [dl EXCEPT ![i].call.pc = "idle", ![i].returned = "error"]
         ELSE /\ disk' = (dl[i].call.checkoutDir :> "complete") @@ disk
              /\ dl' = IF dl[i].call.checkoutDir = dl[i].call.directory
                         THEN [dl EXCEPT ![i].call.pc = "idle", ![i].call.wrote = TRUE,
                                         ![i].returned = "nil"]
                         ELSE [dl EXCEPT ![i].call.pc = "Rename"]
  /\ UNCHANGED besideDownload

\* The end of DownloadGit for a package at a path: os.Stat(nestedPath),
\* os.Rename(nestedPath, o.Directory), the deferred os.RemoveAll(checkoutDir).
Rename(i) ==
  /\ dl[i].call.pc = "Rename"
  /\ IF decomposePkgURL(dl[i].call.url).path \notin InRepository
       THEN /\ disk' = RemoveAll(disk, dl[i].call.checkoutDir)
            /\ dl' = [dl EXCEPT ![i].call.pc = "idle", ![i].returned = "error"]
       ELSE /\ disk' = Renamed(disk, dl[i].call.checkoutDir, dl[i].call.directory)
            /\ dl' = [dl EXCEPT ![i].call.pc = "idle",
                                ![i].call.wrote = ~RenameFails(disk, dl[i].call.directory),
                                ![i].returned = IF RenameFails(disk, dl[i].call.directory)
                                                  THEN "error" ELSE "nil"]
  /\ UNCHANGED besideDownload

\* toKeep of CleanPackages, its entries that are true: for the packages of
\* the lock file, the paths FindPkg finds that have the install path as
\* prefix.
ToKeep(options, d, locked) ==
  {p \in {FindPkg(options, d, url, GitVersion) : url \in locked} :
     p # <<>> /\ HasPrefix(p, PkgInstallPath(options))}

\* The walk of CleanPackages comes to p and leaves it: p is the README, on
\* the way to a path to keep, or below one (filepath.SkipDir).
Walked(options, keep, p) ==
  \/ p = ReadmePath(options)
  \/ \E k \in keep : HasPrefix(k, p) \/ HasPrefix(p, k)

\* CleanPackages with the packages locked in the lock file: the walk over
\* the install path removes with os.RemoveAll what toKeep does not have.
CleanWalk(i) ==
  /\ dl[i].call.pc = "idle" /\ dl[i].n < MaxDownloads
  /\ \E locked \in SUBSET GitUrls :
       /\ disk' = [p \in DOMAIN disk |->
                    IF /\ p # PkgInstallPath(dl[i].options)
                       /\ HasPrefix(p, PkgInstallPath(dl[i].options))
                       /\ ~Walked(dl[i].options, ToKeep(dl[i].options, disk, locked), p)
                      THEN "absent" ELSE disk[p]]
       /\ dl' = [dl EXCEPT ![i].n = @ + 1, ![i].returned = "cleaned",
                           ![i].locked = locked]
  /\ UNCHANGED besideDownload

DownloadNext ==
  \/ \E i \in Procs : downloadFound(i)
  \/ \E i \in Procs : download(i)
  \/ \E i \in Procs : DownloadGit(i)
  \/ \E i \in Procs : Clone(i)
  \/ \E i \in Procs : Rename(i)
  \/ \E i \in Procs : CleanWalk(i)

DownloadSpec == DownloadInit /\ [][DownloadNext]_vars

\* ------------------------------------------------ properties of the downloads
\* The directory of the package url-version below the install path of
\* process i.
CanonicalPath(i, url) == PreferredPkgPath(dl[i].options, url, GitVersion)

\* C28: while packages are downloaded, the canonical directory of a package,
\* be the package a repository or a path of one, is absent or holds the
\* complete package; a partial tree is never to be seen there.
NeverPartialAtCanonicalPath ==
  \A i \in Procs, url \in GitUrls :
    MapGet(disk, CanonicalPath(i, url), "absent") \in {"absent", "complete"}

\* The step in which the DownloadGit of process i returns an error.
ReturnsError(i) ==
  dl[i].call.pc # "idle" /\ dl'[i].call.pc = "idle" /\ dl'[i].returned = "error"

Cleans == \E i \in Procs : dl'[i].returned = "cleaned" /\ dl'[i].n = dl[i].n + 1

\* C30: a package directory that is complete in the cache is removed or
\* replaced by CleanPackages only, never by a download.
EvictedByCleanOnly ==
  [][\A i \in Procs, url \in GitUrls :
       (/\ MapGet(disk, CanonicalPath(i, url), "absent") = "complete"
        /\ MapGet(disk', CanonicalPath(i, url), "absent") # "complete") => Cleans]_vars

PreferredIsFirstSearched ==
  \A i \in Procs, url \in GitUrls :
    PreferredPkgPath(dl[i].options, url, GitVersion)
      = Head(PkgSearchPaths(dl[i].options)) \o URLVersionToRelPath(url, GitVersion)

\* ======================================================== urls as paths
(***************************************************************************)
(* Part 6: ToURIPath and URIPath.URL of compiler/path.go.  A url is a      *)
(* sequence of bytes; url.PathEscape and url.PathUnescape are modelled     *)
(* byte by byte, as net/url does them for a path segment.                  *)
(***************************************************************************)

\* The length of the urls that are converted.
MaxUrlLen == 5

\* The bytes of the urls: letters that spell a device name, the dot, the
\* percent sign, the separator, and the digits of the escape of "%".
UrlBytes == {"c", "O", "n", ".", "%", "/", "2", "5"}

\* strings.ToUpper, byte by byte.
ToUpper(s) ==
  [k \in 1..Len(s) |->
     CASE s[k] = "c" -> "C"
       [] s[k] = "o" -> "O"
       [] s[k] = "n" -> "N"
       [] OTHER      -> s[k]]

\* all_dangerous of ToURIPath.
AllDangerous ==
  {<<>>, <<"C", "O", "N">>, <<"P", "R", "N">>, <<"A", "U", "X">>, <<"N", "U", "L">>}
    \cup {<<"C", "O", "M", d>> : d \in Digit \ {"0"}}
    \cup {<<"L", "P", "T", d>> : d \in Digit \ {"0"}}

\* shouldEscape of net/url for a path segment: letters, digits and the
\* marks -_.~ and $&+:=@ stay.
ShouldEscape(c) ==
  c \notin {"c", "o", "n", "C", "O", "N"} \cup Digit
             \cup {"-", "_", ".", "~", "$", "&", "+", ":", "=", "@"}

\* The two hex digits of a byte that is escaped.
HexOf(c) ==
  CASE c = "%" -> <<"2", "5">>
    [] c = "/" -> <<"2", "F">>
    [] OTHER   -> <<"3", "F">>

\* url.PathEscape
RECURSIVE PathEscape(_)
PathEscape(s) ==
  IF s = <<>> THEN <<>>
  ELSE (IF ShouldEscape(Head(s)) THEN <<"%">> \o HexOf(Head(s)) ELSE <<Head(s)>>)
         \o PathEscape(Tail(s))

\* strings.HasSuffix(s, c) for a byte c.
HasSuffix(s, c) == s # <<>> /\ s[Len(s)] = c

\* What ToURIPath makes of one segment: the escaped segment, with "%"
\* behind a dangerous name, and then with "%" behind a dot at the end.
EscapeSegment(segment) ==
  LET escaped   == PathEscape(segment)
      dangerous == IF ToUpper(escaped) \in AllDangerous
                     THEN escaped \o <<"%">> ELSE escaped
  IN  IF HasSuffix(dangerous, ".") THEN dangerous \o <<"%">> ELSE dangerous

\* ToURIPath
ToURIPath(u) ==
  Join([k \in 1..Len(Split(u)) |-> EscapeSegment(Split(u)[k])])

\* ishex of net/url.
IsHex(c) == c \in Digit \cup {"a", "b", "c", "d", "e", "f", "A", "B", "C", "D", "E", "F"}

\* The byte of two hex digits; "?" is a byte that is none of UrlBytes.
Unhex(h) ==
  CASE h = <<"2", "5">> -> "%"
    [] h = <<"2", "F">> -> "/"
    [] OTHER            -> "?"

\* The first loop of unescape of net/url: every "%" has two hex digits
\* behind it.
RECURSIVE ValidEscapes(_)
ValidEscapes(s) ==
  IF s = <<>> THEN TRUE
  ELSE IF Head(s) # "%" THEN ValidEscapes(Tail(s))
  ELSE /\ Len(s) >= 3 /\ IsHex(s[2]) /\ IsHex(s[3])
       /\ ValidEscapes(SubSeq(s, 4, Len(s)))

\* The second loop of unescape.
RECURSIVE Unescaped(_)
Unescaped(s) ==
  IF s = <<>> THEN <<>>
  ELSE IF Head(s) = "%" THEN <<Unhex(SubSeq(s, 2, 3))>> \o Unescaped(SubSeq(s, 4, Len(s)))
  ELSE <<Head(s)>> \o Unescaped(Tail(s))

\* url.PathUnescape, its error dropped as URL drops it: "" for a segment
\* with a wrong escape.
PathUnescape(s) == IF ValidEscapes(s) THEN Unescaped(s) ELSE <<>>

\* The segment is left as it is.
KeepSegment(segment) == PathUnescape(segment)

\* What URL makes of one segment: a "%" at the end is cut off, the rest is
\* unescaped.
UnescapeSegment(segment) ==
  PathUnescape(IF HasSuffix(segment, "%") THEN SubSeq(segment, 1, Len(segment) - 1)
               ELSE segment)

\* URIPath.URL
URL(up) ==
  Join([k \in 1..Len(Split(up)) |-> UnescapeSegment(Split(up)[k])])

\* A url is to be converted.
PathInit ==
  /\ SolverIdle
  /\ prior = NoPrior /\ id = NoId
  /\ NoLockFile
  /\ NoProject
  /\ proc = <<>> /\ flock = <<>> /\ clones = <<>> /\ dl = <<>> /\ disk = <<>>
  /\ str \in SeqsUpTo(UrlBytes, MaxUrlLen)
  /\ uri = NoUri /\ visiting = NoVisit

\* What the conversions leave alone.
besidePath ==
  <<solverVars, built, prior, str, id, project, proc, flock, clones, dl, disk, visiting>>

\* ToURIPath(str) returns.
CallToURIPath ==
  /\ uri.pc = "none"
  /\ uri' = [uri EXCEPT !.pc = "ToURIPath", !.path = ToURIPath(str)]
  /\ UNCHANGED besidePath

\* URL() of the URIPath returns.
CallURL ==
  /\ uri.pc = "ToURIPath"
  /\ uri' = [uri EXCEPT !.pc = "URL", !.url = URL(uri.path)]
  /\ UNCHANGED besidePath

PathNext == CallToURIPath \/ CallURL

PathSpec == PathInit /\ [][PathNext]_vars

\* C33: URL() of ToURIPath(x) is x, for every x: with empty segments, with
\* segments that are device names, with segments that end in a dot, and
\* with percent signs.
RoundTrip == uri.pc = "URL" => uri.url = str

\* Converted back: a url with a device name and a segment that ends in a dot.
RoundTripOfDangerous ==
  /\ uri.pc = "URL"
  /\ str = <<"c", "O", "n", "/", ".">>
  /\ uri.path = <<"c", "O", "n", "%", "/", ".", "%">>
  /\ uri.url = str

\* ================================================ the walk over local specs
(***************************************************************************)
(* Part 7: Spec.visitLocalDeps step by step: each turn of the loop of      *)
(* visit and each return is a step, so that a walk that does not end is a  *)
(* behaviour that does not end.  The project root is the working           *)
(* directory /p, given as --project-root=/p or as --project-root=. ; the   *)
(* files are found through the working directory.                          *)
(***************************************************************************)

\* os.Getwd()
Cwd == <<"/", "p">>

\* entryDir of visitLocalDeps, filepath.Clean(filepath.Dir(s.path)), for
\* the two ways to name the project root.
EntryDirs == {<<"/", "p">>, <<".">>}

\* The directory that the file system takes a path for.
Abs(p) == IF IsAbs(p) THEN Clean(p) ELSE JoinPath(Cwd, p)

\* filepath.Rel(s_dir, targ): for s_dir "." it is the cleaned targ.
RelTo(entryDir, targ) == IF IsAbs(entryDir) THEN Rel(entryDir, targ) ELSE Clean(targ)

\* pkgPath of visit for a project in entryDir.
PkgPathIn(entryDir, path, dir, isEntry) ==
  LET cleaned == Clean(IF ~IsAbs(path) /\ ~isEntry THEN JoinPath(dir, path) ELSE path)
  IN  TrimSlashDot(IF HasDotsPrefix(cleaned)
                     THEN RelTo(entryDir, JoinPath(entryDir, cleaned))
                     ELSE cleaned)

\* fullPath of visit for a project in entryDir.
FullPathIn(entryDir, pkgPath) ==
  IF IsAbs(pkgPath) THEN pkgPath ELSE Clean(JoinPath(entryDir, pkgPath))

\* isFile(specPath) and ReadSpec(specPath): the package.yaml of the
\* directory, that of the project for the project root.
ReadSpecAt(fullPath) ==
  IF Abs(fullPath) = Cwd THEN specOnDisk ELSE SpecAt(Abs(fullPath))

\* A call of visit: the dependencies of the spec, the directory of the spec,
\* and the path dependencies that its loop has yet to range over.
VisitOf(deps, dir, isEntry) ==
  [Deps |-> deps, dir |-> dir, isEntry |-> isEntry, todo |-> LocalPrefixes(deps)]

\* The directories next to the project and their package.yaml: l and m
\* that depend on each other and on the project, by relative and by
\* absolute paths; n without a package.yaml.
VisitLayouts ==
  {(<<"/", "p", "/", "l">> :>
       SpecFile(("m" :> LocalDep(<<".", ".", "/", "m">>)) @@ ("b" :> RemoteDep("b", CAny))))
     @@ (<<"/", "p", "/", "m">> :>
       SpecFile(("up" :> LocalDep(<<".", ".">>)) @@ ("l" :> LocalDep(<<".", ".", "/", "l">>)))),
   (<<"/", "p", "/", "l">> :>
       SpecFile(("self" :> LocalDep(<<".">>)) @@ ("m" :> LocalDep(<<"/", "p", "/", "m">>))))
     @@ (<<"/", "p", "/", "m">> :>
       SpecFile(("l" :> LocalDep(<<".", ".", "/", "l">>)) @@ ("n" :> LocalDep(<<".", ".", "/", "n">>)))),
   WithSpecLayout}

\* The package.yaml of the project: path dependencies on the directories,
\* on itself, and on one directory by a relative and by an absolute path.
VisitSpecs ==
  {SpecFile("l" :> LocalDep(<<"l">>)),
   SpecFile(("l" :> LocalDep(<<"l">>)) @@ ("m" :> LocalDep(<<".", "/", "m">>))),
   SpecFile(("s" :> LocalDep(<<".">>)) @@ ("l" :> LocalDep(<<"l">>))),
   SpecFile(("l" :> LocalDep(<<"l">>)) @@ ("k" :> LocalDep(<<"/", "p", "/", "l">>)))}

\* The project and the directories; visitLocalDeps is not yet called.
VisitInit ==
  /\ SolverIdle
  /\ prior = NoPrior /\ str = <<>> /\ id = NoId
  /\ NoLockFile
  /\ specOnDisk \in VisitSpecs
  /\ localSpecs \in VisitLayouts
  /\ lockOnDisk = NoFile /\ call = NoCall /\ returned = NoCall /\ ops = 0
  /\ proc = <<>> /\ flock = <<>> /\ clones = <<>> /\ dl = <<>> /\ disk = <<>>
  /\ uri = NoUri
  /\ \E entryDir \in EntryDirs : visiting = [NoVisit EXCEPT !.entryDir = entryDir]

\* What the walk leaves alone.
besideVisit ==
  <<solverVars, built, prior, str, id, project, proc, flock, clones, dl, disk, uri>>

\* The callback is called with the given paths and spec.
Callback(calls, pkgPath, fullPath, depSpec) ==
  Append(calls, [pkgPath |-> pkgPath, fullPath |-> fullPath, depSpec |-> depSpec])

\* visitLocalDeps up to its call of visit: the callback for the spec itself,
\* and entryDir in alreadyVisited.
CallVisitLocalDeps ==
  /\ visiting.pc = "none"
  /\ visiting' = [visiting EXCEPT
                    !.pc = "visit",
                    !.calls = Callback(<<>>, <<>>, visiting.entryDir, specOnDisk),
                    !.alreadyVisited = {visiting.entryDir},
                    !.stack = <<VisitOf(specOnDisk.Deps, visiting.entryDir, TRUE)>>]
  /\ UNCHANGED besideVisit

\* A turn of the loop of visit for a directory that was visited: continue.
\* The loop ranges over a map, so any dependency may come next.
VisitContinue ==
  /\ visiting.pc = "visit"
  /\ \E q \in Top(visiting.stack).todo :
       /\ FullPathIn(visiting.entryDir,
                     PkgPathIn(visiting.entryDir, Top(visiting.stack).Deps[q].Path,
                               Top(visiting.stack).dir, Top(visiting.stack).isEntry))
            \in visiting.alreadyVisited
       /\ visiting' = [visiting EXCEPT !.stack[Len(visiting.stack)].todo = @ \ {q}]
  /\ UNCHANGED besideVisit

\* A turn of the loop for a directory that was not visited: it is added to
\* alreadyVisited, the callback is called, and with a package.yaml in the
\* directory visit is called for its spec.
VisitDep ==
  /\ visiting.pc = "visit"
  /\ \E q \in Top(visiting.stack).todo :
       \E pkgPath \in {PkgPathIn(visiting.entryDir, Top(visiting.stack).Deps[q].Path,
                                 Top(visiting.stack).dir, Top(visiting.stack).isEntry)} :
         \E fullPath \in {FullPathIn(visiting.entryDir, pkgPath)} :
           /\ fullPath \notin visiting.alreadyVisited
           /\ visiting' =
                [visiting EXCEPT
                   !.alreadyVisited = @ \cup {fullPath},
                   !.calls = Callback(@, pkgPath, fullPath, ReadSpecAt(fullPath)),
                   !.stack = [@ EXCEPT ![Len(@)].todo = @ \ {q}]
                               \o (IF ReadSpecAt(fullPath).exists
                                     THEN <<VisitOf(ReadSpecAt(fullPath).Deps, pkgPath, FALSE)>>
                                     ELSE <<>>)]
  /\ UNCHANGED besideVisit

\* The loop of a visit is over: visit returns nil, to the visit that called
\* it or to visitLocalDeps.
VisitReturn ==
  /\ visiting.pc = "visit"
  /\ Top(visiting.stack).todo = {}
  /\ visiting' = [visiting EXCEPT
                    !.stack = Pop(@),
                    !.pc = IF Len(visiting.stack) = 1 THEN "returned" ELSE "visit"]
  /\ UNCHANGED besideVisit

VisitNext == CallVisitLocalDeps \/ VisitContinue \/ VisitDep \/ VisitReturn

VisitSpec == VisitInit /\ [][VisitNext]_vars

\* The walk over the local dependencies ends: a walk that took steps for
\* ever would never return, and there is none.
VisitTerminates == []<><<TRUE>>_vars => <>(visiting.pc = "returned")

\* A walk that has not returned has a step to take.
VisitGoesOn ==
  visiting.pc = "visit" =>
    visiting.stack # <<>> /\ Top(visiting.stack).todo \subseteq DOMAIN Top(visiting.stack).Deps

\* No path is handed to the callback twice.
EachFullPathOnce ==
  \A i, j \in DOMAIN visiting.calls :
    i # j => visiting.calls[i].fullPath # visiting.calls[j].fullPath

\* C34: the walk over the local dependencies, cycles among them or not,
\* calls the callback at most once for each directory, two paths that lead
\* to the same directory being the same.
EachDirectoryOnce ==
  \A i, j \in DOMAIN visiting.calls :
    i # j => Abs(visiting.calls[i].fullPath) # Abs(visiting.calls[j].fullPath)

\* ------------------------------------------------ the undo of the solver
\* The solver state as the first k entries of the working queue, each with
\* the candidate its continuation names, build it up from the state Solve
\* starts with: the state before the commit for entry k + 1.
RECURSIVE BeforeCommit(_, _)
BeforeCommit(conts, k) ==
  IF k = 0 THEN [EmptyState EXCEPT !.minSDK = solveMinSDK, !.workingQueue = solveDeps]
  ELSE LET before == BeforeCommit(conts, k - 1)
           url == before.workingQueue[k].url
           candidate == db[url][conts[k].index]
           urlVersion == <<url, candidate.version[1]>>
       IN  IF urlVersion \in DOMAIN before.pkgs THEN before
           ELSE [before EXCEPT
                   !.pkgs = [x \in DOMAIN before.pkgs \cup {urlVersion} |->
                               IF x = urlVersion THEN candidate.version ELSE before.pkgs[x]],
                   !.minSDK = IF \/ before.minSDK = Nil
                                 \/ candidate.minSDK # Nil /\ GreaterThan(candidate.minSDK, before.minSDK)
                                THEN candidate.minSDK ELSE before.minSDK,
                   !.workingQueue = before.workingQueue \o candidate.deps]

\* The parts of the solver state that a commit changes and an undo restores.
Partial(st) == <<st.pkgs, st.minSDK, st.workingQueue>>

\* C35: when Solve takes back its most recent commit, the version of each
\* url-major, the minimal SDK and the working queue, its length and its
\* entries, are again what they were before that commit.
UndoRestores ==
  [][(pc = "loop" /\ Len(state'.undos) < Len(state.undos))
       => Partial(state') = Partial(BeforeCommit(state.continuations, Len(state'.undos)))]_vars

\* A commit that had fixed a version and added dependencies is taken back.
UndoneCommit ==
  /\ pc = "loop"
  /\ Len(state.continuations) = Len(state.undos) + 1
  /\ Partial(state) = Partial(BeforeCommit(state.continuations, Len(state.undos)))
  /\ Len(BeforeCommit(state.continuations, Len(state.undos) + 1).workingQueue)
       > Len(state.workingQueue)
  /\ DOMAIN BeforeCommit(state.continuations, Len(state.undos) + 1).pkgs # DOMAIN state.pkgs

\* --------------------------------------------- the retries of the solver
\* The candidate k of the dependency can be taken with the versions pkgs
\* fixed so far: it meets the constraints and the SDK, and its url-major
\* has no other version.
Acceptable(pkgs, dep, k) ==
  /\ Check(dep.constraints, db[dep.url][k].version)
  /\ ~SdkMismatch(sdkVersion, db[dep.url][k])
  /\ ~OtherThanExisting(pkgs, UrlVersion(dep.url, db[dep.url][k].version), db[dep.url][k])

\* The index of the candidate that was accepted for the working entry when
\* Solve comes back to it, 0 when it comes to the entry from the one before.
Accepted ==
  IF Len(state.continuations) = workingIndex + 1
    THEN state.continuations[workingIndex + 1].index ELSE 0

\* C36: Solve tries the candidates of a working entry in their order: when
\* it comes back to the entry after a failure further on it goes on with
\* the candidate right behind the one it had accepted; it takes the first
\* one from there that can be taken, and gives the entry up only when none
\* from there on can.
RetriesFromNext ==
  [][(pc = "loop" /\ workingIndex >= 0 /\ workingIndex < Len(state.workingQueue)) =>
       IF workingIndex' = workingIndex + 1
         THEN /\ state'.continuations[workingIndex + 1].index > Accepted
              /\ Acceptable(state.pkgs, state.workingQueue[workingIndex + 1],
                            state'.continuations[workingIndex + 1].index)
              /\ \A k \in (Accepted + 1)..(state'.continuations[workingIndex + 1].index - 1) :
                   ~Acceptable(state.pkgs, state.workingQueue[workingIndex + 1], k)
         ELSE \A k \in (Accepted + 1)..Len(db[state.workingQueue[workingIndex + 1].url]) :
                ~Acceptable(state.pkgs, state.workingQueue[workingIndex + 1], k)]_vars

\* Solve came back to an entry and took the next candidate: the one before
\* it could have been taken as well.
RetriedWithNext ==
  /\ pc = "loop"
  /\ workingIndex >= 1
  /\ Len(state.continuations) = workingIndex
  /\ state.continuations[workingIndex].index >= 2
  /\ Acceptable(BeforeCommit(state.continuations, workingIndex - 1).pkgs,
                BeforeCommit(state.continuations, workingIndex - 1).workingQueue[workingIndex],
                state.continuations[workingIndex].index - 1)

\* ------------------------------------------------ the lists of SetPreferred
\* The length of the lists handed to SetPreferred.
MaxPreferred == 3

\* Registries with every version of b and of c, and the same without the
\* highest version of b.
FullRegistry ==
  {NewDesc(s, [deps |-> <<>>, minSDK |-> Nil]) : s \in Slots}

\* The versioned urls of the lists: the versions of b, two of c, and one of
\* e, which has no package.
VersionedPool ==
  {[URL |-> "b", Version |-> v] : v \in Versions}
    \cup {[URL |-> "c", Version |-> v] : v \in {<<1, 0>>, <<1, 1>>}}
    \cup {[URL |-> "e", Version |-> <<1, 0>>]}

PreferScenarios ==
  [registries : {FullRegistry, {d \in FullRegistry : d.version # <<2, 0>>}},
   sdkVersion : {Nil},
   preferred : SeqsUpTo(VersionedPool, MaxPreferred) \ {<<>>},
   minSDK : {Nil}, deps : {<<NewSolverDep("b", CAny)>>}]

\* A solver whose SetPreferred is called with a list of the scenarios.
PreferSpec == InitFrom(PreferScenarios) /\ [][SetPreferred]_vars

\* The members of a set of numbers, lowest first.
RECURSIVE Ascending(_)
Ascending(S) ==
  IF S = {} THEN <<>>
  ELSE <<CHOOSE m \in S : \A k \in S : m <= k>>
         \o Ascending(S \ {CHOOSE m \in S : \A k \in S : m <= k})

\* The places of the list of SetPreferred that name, for the first time, a
\* version of the url that the database has.
Wanted(url) ==
  Ascending({i \in 1..Len(preferred) :
               /\ preferred[i].URL = url
               /\ \E j \in 1..Len(db[url]) : db[url][j].version = preferred[i].Version
               /\ \A k \in 1..(i - 1) : preferred[k] # preferred[i]})

\* The packages of the url with the versions a list of places names, in the
\* order of the list.
WantedPkgs(url, places) ==
  [n \in 1..Len(places) |->
     CHOOSE p \in Range(db[url]) : p.version = preferred[places[n]].Version]

\* The packages of the url that the list does not name, newest first.
Unwanted(url) ==
  Reverse(SortByVersion({p \in Range(db[url]) :
                           \A i \in 1..Len(preferred) :
                             ~(preferred[i].URL = url /\ preferred[i].Version = p.version)}))

\* C37: after SetPreferred the candidates of each url start with the
\* versions the list names for it, in the order of the list, the one named
\* first in the first place; the candidates behind them are the others,
\* the newest first.
PreferredInFront ==
  pc = "preferred" =>
    \A url \in AllUrls : db[url] = WantedPkgs(url, Wanted(url)) \o Unwanted(url)

\* A list that names a lower version of b before a higher one, and a
\* database with a third version of b: the lower one is in the first
\* place, the higher one behind it.
PreferredTwoInOrder ==
  /\ pc = "preferred"
  /\ preferred = <<[URL |-> "b", Version |-> <<1, 0>>], [URL |-> "c", Version |-> <<1, 0>>],
                   [URL |-> "b", Version |-> <<1, 1>>]>>
  /\ Len(db["b"]) = 3
  /\ db["b"][1].version = <<1, 0>> /\ db["b"][2].version = <<1, 1>>
  /\ db["b"][3].version = <<2, 0>>

\* ===================================== BuildLockFile on the same solution
(***************************************************************************)
(* Part 8: Spec.BuildLockFile called again with the spec and the solution  *)
(* it was called with before.  Each call ranges over the maps              *)
(* solution.pkgs, pkgIDs and s.Deps in an order of its own.                *)
(***************************************************************************)

\* The package.yaml files of the projects: dependencies on c, which brings
\* b with it, on both, and on the directory l as well.
RebuildSpecs ==
  {SpecFile("c" :> RemoteDep("c", CAny)),
   SpecFile(("b" :> RemoteDep("b", CAny)) @@ ("c" :> RemoteDep("c", CAny))),
   SpecFile(("c" :> RemoteDep("c", CAny)) @@ ("l" :> LocalDep(<<"l">>))),
   SpecFile("b" :> RemoteDep("b", Below(4))),
   SpecFile(("b" :> RemoteDep("b", CAny)) @@ ("old" :> RemoteDep("b", Below(3))))}

\* What a run starts from: the registries, the directories next to the
\* project and its package.yaml.
RebuildScenarios ==
  [registries : {PlainRegistry, ChainRegistry},
   localSpecs : {WithSpecLayout, WithoutSpecLayout},
   spec : RebuildSpecs]

\* A Solver on the registries that is handed the dependencies of the
\* package.yaml.
RebuildInit ==
  /\ \E sc \in RebuildScenarios :
       /\ localSpecs = sc.localSpecs
       /\ specOnDisk = sc.spec
       /\ db = NewSolver(sc.registries)
  /\ \E order \in Orders(DOMAIN specOnDisk.Deps) :
       solveDeps = BuildSolverDeps([Deps |-> specOnDisk.Deps], order)
  /\ lockOnDisk = NoFile
  /\ call = NoCall
  /\ returned = NoCall
  /\ ops = 0
  /\ sdkVersion = Nil
  /\ preferred = <<>>
  /\ solveMinSDK = Nil
  /\ printedErrors = {}
  /\ ui = <<>>
  /\ state = EmptyState
  /\ workingIndex = 0
  /\ result = NilSolution
  /\ pc = "new"
  /\ prior = NoPrior
  /\ NoHost
  /\ str = <<>>
  /\ id = NoId
  /\ NoLockFile

\* BuildLockFile is called once more with the spec and the solution.
CallBuildLockFileAgain ==
  /\ pc = "done"
  /\ ~result.isNil
  /\ lfpc # "none"
  /\ \E b \in BuildLockFile([Deps |-> specOnDisk.Deps], result) :
       /\ working' = b.working
       /\ lockfile' = b.lf
       /\ renaming' = b.old2New
       /\ lfpc' = IF b.ok THEN "optimized" ELSE "failed"
  /\ UNCHANGED <<solverVars, aside, project>>

RebuildNext ==
  Solve \/ SolveStep \/ SolveReturn \/ SolveFail \/ CallBuildLockFile \/ CallBuildLockFileAgain

RebuildSpec == RebuildInit /\ [][RebuildNext]_vars

\* The second call gives every (url, version) the working id of the first.
SameWorkingIDs ==
  [][(lfpc # "none" /\ lfpc' # "none") => working' = working]_vars

\* The second call returns the lock file of the first.
SameLockFile ==
  [][(lfpc # "none" /\ lfpc' # "none") => lockfile' = lockfile]_vars

\* C38: BuildLockFile called twice with the same spec and the same solution
\* gives every (url, version) the same working id pkgN and returns
\* identical lock files.
BuildTwiceSame ==
  [][(lfpc # "none" /\ lfpc' # "none")
       => (working' = working /\ lockfile' = lockfile /\ lfpc' = lfpc)]_vars

\* C39: at the head of every round of the loop of Solve with a working index
\* i >= 0 the undo stack holds exactly i records and the continuation stack
\* holds i or i + 1 entries.
StacksFollowIndex ==
  (pc = "loop" /\ workingIndex >= 0)
    => /\ Len(state.undos) = workingIndex
       /\ Len(state.continuations) \in {workingIndex, workingIndex + 1}

\* The loop is back at its second entry, whose continuation is on the stack,
\* after the third entry failed.
BackAtSecondEntry ==
  /\ pc = "loop"
  /\ workingIndex = 1
  /\ Len(state.workingQueue) >= 3
  /\ Len(state.undos) = 1
  /\ Len(state.continuations) = 2

====
